---- MODULE Spec2Model ----
(***************************************************************************)
(* Multi-provider dispatch-and-validate layer of Prompt-Experiments.       *)
(*                                                                         *)
(*   Spec         the service factory and the three registered adapters    *)
(*                (services/service_factory.py, openai_service.py,         *)
(*                anthropic_service.py, gemini_service.py)                 *)
(*   SpecValidate the judge validation and repair pass                     *)
(*                (AnthropicService.validate_response, JudgeResponse)      *)
(*   SpecFlatten  get_flattened_schema (services/gemini_service.py)        *)
(*   SpecSave     AIPromptSender.save_to_database and the two persistence   *)
(*                backends (ai_prompt_sender.py, database/)                 *)
(*   SpecFactory  the factory's registry while the environment changes     *)
(*   SpecShape    get_messages of the three adapters                       *)
(*   SpecConnection  get_database / close_database (database/connection.py) *)
(*                and DatabaseService.initialize, run by two coroutines    *)
(***************************************************************************)
EXTENDS Integers, Sequences, FiniteSets, TLC

VARIABLES
    env,        \* environment: provider -> value os.getenv gives for its API key
    services,   \* AIServiceFactory.services, in insertion order
    call,       \* the factory call in progress
    tasks,      \* the send_to_provider coroutines of the call, in creation order
    returned,   \* list of envelopes handed back to the caller
    raised,     \* TRUE when the call ended with an exception instead
    vcase,      \* validator spec: the candidate mapping under validation
    vout,       \* validator spec: result of validate_response / repair
    fin,        \* flattener spec: the schema given to get_flattened_schema
    fout,       \* flattener spec: the schema it returned
    db,         \* persistence spec: the configured backend and its globals
    sv,         \* persistence spec: the save_to_database call
    prompt,     \* request shaping spec: the messages given to get_messages
    request     \* request shaping spec: what get_messages returned

vars == <<env, services, call, tasks, returned, raised, vcase, vout, fin, fout, db, sv,
          prompt, request>>

dispatchVars == <<env, services, call, tasks, returned, raised>>
validateVars == <<vcase, vout>>
flattenVars == <<fin, fout>>
saveVars == <<db, sv>>
shapeVars == <<prompt, request>>

-----------------------------------------------------------------------------
(* Bounds *)

\* longest response.content / response.output / parts list the endpoint returns
MaxItems == 2
\* most judge fields that arrive malformed in one candidate mapping
MaxMalformed == 2
\* calls made on one factory, one after the other
MaxCalls == 2
\* most fields of the root model of a generated schema
MaxRootFields == 2
\* save_to_database calls made one after the other
MaxSaves == 2
\* messages in one prompt
MaxMessages == 3
\* get_database / initialize calls one coroutine makes
MaxGets == 2
\* the depth of the call stack at which the interpreter raises RecursionError
\* (sys.getrecursionlimit() is 1000; the schemas here nest far less deep)
RecursionLimit == 16

-----------------------------------------------------------------------------
(* services/types.py *)

OPENAI == "openai"
ANTHROPIC == "anthropic"
GEMINI == "gemini"
PERPLEXITY == "perplexity"

Provider == {OPENAI, ANTHROPIC, GEMINI, PERPLEXITY}

\* Python None for string-valued parameters (model, action)
None == "None"
\* Python None for tokens_used
NoTokens == -1
\* content="": a populated content is the one-element tuple of the dumped object
Empty == <<>>

\* an error text: the message, the places a validation error names, and for the
\* message of a failed repair the repair's own exception
Error(msg, detail, fix_msg, fix_detail) ==
    [msg |-> msg, detail |-> detail, fix_msg |-> fix_msg, fix_detail |-> fix_detail]
Err(msg, detail) == Error(msg, detail, "", {})
\* error=None
NoError == Err("", {})

AIResponse(provider, content, model, tokens_used, error) ==
    [provider |-> provider, content |-> content, model |-> model,
     tokens_used |-> tokens_used, error |-> error]

NoEnvelope == AIResponse("", Empty, "", NoTokens, NoError)

-----------------------------------------------------------------------------
(* JSON values of a candidate mapping.  A string is a sequence of text      *)
(* chunks, so that substring tests and the repair regex are computed.       *)

JAbsent == [t |-> "absent", n |-> 0, s |-> <<>>]
JNull == [t |-> "null", n |-> 0, s |-> <<>>]
JInt(n) == [t |-> "int", n |-> n, s |-> <<>>]
JStr(s) == [t |-> "str", n |-> 0, s |-> s]
\* the object {"score": score, "reason": reason}
JDict(score, reason) == [t |-> "dict", n |-> score, s |-> reason]

Digits == {"0", "1", "2", "3", "4", "5", "6", "7", "8", "9"}

DigitValue(d) ==
    CASE d = "0" -> 0 [] d = "1" -> 1 [] d = "2" -> 2 [] d = "3" -> 3
      [] d = "4" -> 4 [] d = "5" -> 5 [] d = "6" -> 6 [] d = "7" -> 7
      [] d = "8" -> 8 [] d = "9" -> 9

\* Python int() of a string of decimal digits
RECURSIVE int(_)
int(ds) ==
    IF ds = <<>> THEN 0
    ELSE 10 * int(SubSeq(ds, 1, Len(ds) - 1)) + DigitValue(ds[Len(ds)])

\* the character class ["'>] of the repair regex
QuoteClass == {"\"", "'", ">"}

\* first index >= i of s whose chunk is not in the set cls (Len(s)+1 if none)
RECURSIVE SkipWhile(_, _, _)
SkipWhile(s, i, cls) ==
    IF i > Len(s) \/ s[i] \notin cls THEN i ELSE SkipWhile(s, i + 1, cls)

\* the regex score["'>]*(\d+) anchored at index i: group(1), or <<>> if no match
MatchAt(s, i) ==
    IF s[i] # "score" THEN <<>>
    ELSE LET j == SkipWhile(s, i + 1, QuoteClass)
             k == SkipWhile(s, j, Digits)
         IN SubSeq(s, j, k - 1)

\* re.search(r'score["\'>]*(\d+)', field_value): group(1) of the leftmost match
RECURSIVE SearchFrom(_, _)
SearchFrom(s, i) ==
    IF i > Len(s) THEN <<>>
    ELSE IF MatchAt(s, i) # <<>> THEN MatchAt(s, i)
    ELSE SearchFrom(s, i + 1)

re_search(s) == SearchFrom(s, 1)

\* '<parameter' in field_value
HasParameterTag(s) == \E i \in 1..Len(s) : s[i] = "<parameter"

-----------------------------------------------------------------------------
(* models/JudgeResponse.py *)

JudgeFields == {"clarity", "specificity", "relevance", "actionability", "approachability"}

\* Optional[int] in pydantic's default (lax) mode: an int, or a string of digits
IntCoercible(v) ==
    \/ v.t = "int"
    \/ v.t = "str" /\ v.s # <<>> /\ \A i \in 1..Len(v.s) : v.s[i] \in Digits

\* a value a field declared Optional[int] = None accepts
FieldAccepts(v) == v.t \in {"absent", "null"} \/ IntCoercible(v)

FieldCoerce(v) ==
    IF v.t = "int" THEN JInt(v.n)
    ELSE IF v.t = "str" THEN JInt(int(v.s))
    ELSE JNull

\* the fields on which JudgeResponse.model_validate(args) reports an error
JudgeErrors(args) ==
    IF args.shape # "dict" THEN {"__root__"}
    ELSE {f \in JudgeFields : ~FieldAccepts(args.judge[f])}

JudgeValid(args) == JudgeErrors(args) = {}

\* the validated JudgeResponse, as model_dump_json() serialises it
JudgeDump(args) ==
    [kind |-> "JudgeResponse", fields |-> [f \in JudgeFields |-> FieldCoerce(args.judge[f])]]

ValidationError(fields) == Err("ValidationError", fields)

-----------------------------------------------------------------------------
(* models/BrainWorkoutResult.py: the outcome of validating a candidate      *)
(* against the workout schema is carried by the candidate itself.           *)

WorkoutValid(args) == args.shape = "dict" /\ args.workout_ok

WorkoutDump(args) ==
    [kind |-> "BrainWorkoutResult", fields |-> args.judge]

-----------------------------------------------------------------------------
(* Candidate mappings (tool arguments, or JSON parsed from fallback text)   *)

Args(shape, judge, workout_ok) ==
    [shape |-> shape, judge |-> judge, workout_ok |-> workout_ok]

NoFields == [f \in JudgeFields |-> JAbsent]
NoArgs == Args("none", NoFields, FALSE)

\* <parameter name="score">4</parameter>
ParamScoreBody == <<"<parameter", " name=", "\"", "score", "\"", ">", "4", "</parameter>">>
\* <parameter score=4>
ParamScoreAttr == <<"<parameter", " ", "score", "=", "4", ">">>
\* <parameter name="clarity">good</parameter>
ParamNoScore == <<"<parameter", " name=", "\"", "clarity", "\"", ">", "good", "</parameter>">>
\* score>4, outside any parameter tag
BareScore == <<"score", ">", "4">>

PlainValues == {JAbsent, JInt(4), JStr(<<"4">>)}
MalformedValues ==
    {JStr(ParamScoreBody), JStr(ParamScoreAttr), JStr(ParamNoScore), JStr(BareScore),
     JDict(4, <<"Clear feedback">>)}

JudgeMappings ==
    {m \in [JudgeFields -> PlainValues \cup MalformedValues] :
        Cardinality({f \in JudgeFields : m[f] \in MalformedValues}) <= MaxMalformed}

-----------------------------------------------------------------------------
(* validate_response of the three adapters.  The result is what the         *)
(* coroutine does: return an envelope, return None, or raise.               *)

GENERATE_WORKOUT_RESULT == "generate_workout_result"
JUDGE_RESPONSE == "judge_response"

Returns(envelope) == [kind |-> "return", envelope |-> envelope, exc |-> NoError]
ReturnsNone == [kind |-> "none", envelope |-> NoEnvelope, exc |-> NoError]
Raises(exc) == [kind |-> "raise", envelope |-> NoEnvelope, exc |-> exc]

\* tokens_used if tokens_used else None
TokensOrNone(tokens_used) ==
    IF tokens_used # NoTokens /\ tokens_used # 0 THEN tokens_used ELSE NoTokens

\* the repaired value of one field (anthropic_service.py lines 162-175)
FixField(v) ==
    IF v.t = "str" /\ HasParameterTag(v.s)
    THEN IF re_search(v.s) # <<>>
         THEN JDict(int(re_search(v.s)), <<"Automatically extracted score ">> \o re_search(v.s))
         ELSE JDict(3, <<"Could not parse malformed input">>)
    ELSE v

\* fixed_args built by the repair loop over tool_args.items()
FixedArgs(args) ==
    Args(args.shape, [f \in JudgeFields |-> FixField(args.judge[f])], args.workout_ok)

\* the repair attempt: the exception it ends with, or NoError when it validates
FixError(args) ==
    IF args.shape # "dict" THEN Err("AttributeError", {"items"})
    ELSE IF JudgeValid(FixedArgs(args)) THEN NoError
    ELSE ValidationError(JudgeErrors(FixedArgs(args)))

\* a validate_response whose last handler reports the error of the repair
\* attempt alone
AnthropicValidateResponseRepairErrorOnly(args, action, model, tokens_used) ==
    IF action = GENERATE_WORKOUT_RESULT
    THEN IF WorkoutValid(args)
         THEN Returns(AIResponse("Anthropic", <<WorkoutDump(args)>>, model,
                                 TokensOrNone(tokens_used), NoError))
         ELSE Returns(AIResponse("Anthropic", Empty, model, NoTokens,
                                 ValidationError({"__root__"})))
    ELSE IF action = JUDGE_RESPONSE
    THEN IF JudgeValid(args)
         THEN Returns(AIResponse("Anthropic", <<JudgeDump(args)>>, model,
                                 TokensOrNone(tokens_used), NoError))
         ELSE IF FixError(args) = NoError
         THEN Returns(AIResponse("Anthropic", <<JudgeDump(FixedArgs(args))>>, model,
                                 TokensOrNone(tokens_used), NoError))
         ELSE Returns(AIResponse("Anthropic", Empty, model, NoTokens,
                                 Error("Fix attempt failed: ", {},
                                       FixError(args).msg, FixError(args).detail)))
    ELSE ReturnsNone

\* AnthropicService.validate_response
AnthropicValidateResponse(args, action, model, tokens_used) ==
    IF action = GENERATE_WORKOUT_RESULT
    THEN IF WorkoutValid(args)
         THEN Returns(AIResponse("Anthropic", <<WorkoutDump(args)>>, model,
                                 TokensOrNone(tokens_used), NoError))
         ELSE Returns(AIResponse("Anthropic", Empty, model, NoTokens,
                                 ValidationError({"__root__"})))
    ELSE IF action = JUDGE_RESPONSE
    THEN IF JudgeValid(args)
         THEN Returns(AIResponse("Anthropic", <<JudgeDump(args)>>, model,
                                 TokensOrNone(tokens_used), NoError))
         ELSE IF FixError(args) = NoError
         THEN Returns(AIResponse("Anthropic", <<JudgeDump(FixedArgs(args))>>, model,
                                 TokensOrNone(tokens_used), NoError))
         ELSE Returns(AIResponse("Anthropic", Empty, model, NoTokens,
                                 Error("Validation failed: . Fix attempt failed: ",
                                       JudgeErrors(args),
                                       FixError(args).msg, FixError(args).detail)))
    ELSE ReturnsNone

OpenAIValidateResponse(args, action, model, tokens_used) ==
    IF action \notin {GENERATE_WORKOUT_RESULT, JUDGE_RESPONSE} THEN ReturnsNone
    ELSE IF args.shape = "badjson" THEN Raises(Err("JSONDecodeError", {}))
    ELSE IF action = GENERATE_WORKOUT_RESULT
    THEN IF WorkoutValid(args)
         THEN Returns(AIResponse("OpenAI", <<WorkoutDump(args)>>, model,
                                 TokensOrNone(tokens_used), NoError))
         ELSE Returns(AIResponse("OpenAI", Empty, model, NoTokens,
                                 ValidationError({"__root__"})))
    ELSE IF JudgeValid(args)
         THEN Returns(AIResponse("OpenAI", <<JudgeDump(args)>>, model,
                                 TokensOrNone(tokens_used), NoError))
         ELSE Returns(AIResponse("OpenAI", Empty, model, NoTokens,
                                 ValidationError(JudgeErrors(args))))

GeminiValidateResponse(args, action, model, tokens_used) ==
    IF action = GENERATE_WORKOUT_RESULT
    THEN IF WorkoutValid(args)
         THEN Returns(AIResponse("Gemini", <<WorkoutDump(args)>>, model,
                                 TokensOrNone(tokens_used), NoError))
         ELSE Returns(AIResponse("Gemini", Empty, model, NoTokens,
                                 Err("Validation failed: ValidationError", {"__root__"})))
    ELSE IF action = JUDGE_RESPONSE
    THEN IF JudgeValid(args)
         THEN Returns(AIResponse("Gemini", <<JudgeDump(args)>>, model,
                                 TokensOrNone(tokens_used), NoError))
         ELSE Returns(AIResponse("Gemini", Empty, model, NoTokens,
                                 Err("Validation failed: ValidationError", JudgeErrors(args))))
    ELSE ReturnsNone

\* a validation that reports the provider's default model in the envelope
validate_response_default_model(provider, args, action, model, tokens_used) ==
    CASE provider = OPENAI ->
            OpenAIValidateResponse(args, action, "gpt-4.1", tokens_used)
      [] provider = ANTHROPIC ->
            AnthropicValidateResponse(args, action, "claude-sonnet-4-20250514", tokens_used)
      [] provider = GEMINI ->
            GeminiValidateResponse(args, action, "gemini-2.5-pro", tokens_used)

\* service.validate_response of the provider's adapter
validate_response(provider, args, action, model, tokens_used) ==
    CASE provider = OPENAI -> OpenAIValidateResponse(args, action, model, tokens_used)
      [] provider = ANTHROPIC -> AnthropicValidateResponse(args, action, model, tokens_used)
      [] provider = GEMINI -> GeminiValidateResponse(args, action, model, tokens_used)

-----------------------------------------------------------------------------
(* services/service_factory.py: construction *)

EnvValues == {None, "key"}

\* truthiness of os.getenv's result
Truthy(value) == value # None /\ value # ""

Service(provider, api_key) == [provider |-> provider, client |-> Truthy(api_key)]

_setup_services(e) ==
    (IF Truthy(e[OPENAI]) THEN <<Service(OPENAI, e[OPENAI])>> ELSE <<>>)
    \o (IF Truthy(e[ANTHROPIC]) THEN <<Service(ANTHROPIC, e[ANTHROPIC])>> ELSE <<>>)
    \o (IF Truthy(e[GEMINI]) THEN <<Service(GEMINI, e[GEMINI])>> ELSE <<>>)

\* list(self.services.keys())
get_available_services == [i \in 1..Len(services) |-> services[i].provider]

Registered == {services[i].provider : i \in 1..Len(services)}

\* self.services.get(provider): the index of the service, 0 for None
get_service(provider) ==
    IF provider \in Registered
    THEN CHOOSE i \in 1..Len(services) : services[i].provider = provider
    ELSE 0

\* the default_models dict of send_to_provider
DefaultModelProviders == {OPENAI, ANTHROPIC, GEMINI}
default_models(provider) ==
    CASE provider = OPENAI -> "gpt-4.1"
      [] provider = ANTHROPIC -> "claude-sonnet-4-20250514"
      [] provider = GEMINI -> "gemini-2.5-pro"

-----------------------------------------------------------------------------
(* What the remote endpoint answers *)

SAVE_BRAIN_WORKOUT_RESULT == "save_brain_workout_result"

\* an item of response.content / response.output / candidates[0].content.parts
ToolItem(name) == [type |-> "tool_use", name |-> name]
TextItem == [type |-> "text", name |-> ""]
OtherItem == [type |-> "other", name |-> ""]

Items == {ToolItem(SAVE_BRAIN_WORKOUT_RESULT), ToolItem(JUDGE_RESPONSE), TextItem, OtherItem}

Contents == UNION {[1..n -> Items] : n \in 0..MaxItems}

Usage(input_tokens, output_tokens) ==
    [present |-> TRUE, input_tokens |-> input_tokens, output_tokens |-> output_tokens,
     total_tokens |-> input_tokens + output_tokens]
NoUsage == [present |-> FALSE, input_tokens |-> 0, output_tokens |-> 0, total_tokens |-> 0]

Usages == {NoUsage, Usage(0, 0), Usage(5, 7)}

\* the disposition of a provider's endpoint for one call
TRANSPORT_ERROR == "transport_error"
VALID_TOOL_CALL == "valid_tool_call"
ANY == "any"
RemotePlans == {TRANSPORT_ERROR, VALID_TOOL_CALL, ANY}

\* text chunks of a plain-text answer; DOC stands for one JSON document,
\* FENCE for the three backquotes of a Markdown code fence
DOC == "{...}"
FENCE_JSON == "FENCEjson"
FENCE == "FENCE"
Whitespace == {"\n", " "}

SampleTexts ==
    { <<>>, <<"\n">>, <<DOC>>, <<"junk">>,
      <<FENCE_JSON, "\n", DOC, "\n", FENCE>>,
      <<FENCE, "\n", DOC, "\n", FENCE>>,
      <<"Here is the result: ", FENCE_JSON, DOC, FENCE>> }

\* candidate mappings the endpoint is made to answer with in the dispatch runs
SampleJudge ==
    { [f \in JudgeFields |-> JInt(4)],
      [f \in JudgeFields |-> IF f = "clarity" THEN JStr(ParamScoreBody) ELSE JInt(4)],
      [f \in JudgeFields |-> IF f = "clarity" THEN JStr(ParamNoScore) ELSE JInt(4)],
      [f \in JudgeFields |-> JDict(4, <<"Clear feedback">>)] }

ArgsFor(action) ==
    IF action = JUDGE_RESPONSE
    THEN {Args(sh, m, FALSE) : sh \in {"dict"}, m \in SampleJudge}
         \cup {Args("notdict", NoFields, FALSE), Args("badjson", NoFields, FALSE)}
    ELSE {Args("dict", NoFields, TRUE), Args("dict", NoFields, FALSE),
          Args("notdict", NoFields, FALSE), Args("badjson", NoFields, FALSE)}

\* does the candidate satisfy the schema of the action
ValidFor(action, args) ==
    IF action = JUDGE_RESPONSE THEN JudgeValid(args) ELSE WorkoutValid(args)

-----------------------------------------------------------------------------
(* Plain-text fallback: strip the code fence, json.loads the remainder *)

\* str.strip()
RECURSIVE strip(_)
strip(s) ==
    IF s = <<>> THEN s
    ELSE IF s[1] \in Whitespace THEN strip(Tail(s))
    ELSE IF s[Len(s)] \in Whitespace THEN strip(SubSeq(s, 1, Len(s) - 1))
    ELSE s

\* s.replace(FENCE_JSON, '')
RECURSIVE RemoveFenceJson(_)
RemoveFenceJson(s) ==
    IF s = <<>> THEN s
    ELSE IF s[1] = FENCE_JSON THEN RemoveFenceJson(Tail(s))
    ELSE <<s[1]>> \o RemoveFenceJson(Tail(s))

\* s.replace(FENCE, ''): a fence chunk goes, a FENCE_JSON chunk keeps its "json"
RECURSIVE RemoveFence(_)
RemoveFence(s) ==
    IF s = <<>> THEN s
    ELSE IF s[1] = FENCE THEN RemoveFence(Tail(s))
    ELSE IF s[1] = FENCE_JSON THEN <<"json">> \o RemoveFence(Tail(s))
    ELSE <<s[1]>> \o RemoveFence(Tail(s))

\* a fallback that parses the stripped text as it is, fences included
JsonTextKeepsFence(content_text) == strip(content_text)

\* json_text of the fallback path
JsonText(content_text) ==
    LET json_text == strip(content_text)
    IN IF json_text # <<>> /\ json_text[1] = FENCE_JSON
       THEN strip(RemoveFence(RemoveFenceJson(json_text)))
       ELSE IF json_text # <<>> /\ json_text[1] = FENCE
       THEN strip(RemoveFence(json_text))
       ELSE json_text

\* json.loads(json_text) succeeds: the text is one JSON document
JsonLoads(json_text) == strip(json_text) = <<DOC>>

-----------------------------------------------------------------------------
(* One send_to_provider coroutine *)

Models == {None, "custom-model"}
Actions == {None, GENERATE_WORKOUT_RESULT, JUDGE_RESPONSE}

NewTask(provider, model, action, plan) ==
    [provider |-> provider, model |-> model, action |-> action, plan |-> plan,
     pc |-> "send_to_provider", path |-> <<>>, model_arg |-> None,
     usage |-> NoUsage, content |-> <<>>, tokens_used |-> NoTokens,
     args |-> NoArgs, text |-> <<>>,
     envelope |-> NoEnvelope, remote_calls |-> 0, raised |-> FALSE]

\* the coroutine leaves the stage it is in for the stage pc
Goto(t, pc) == [t EXCEPT !.pc = pc, !.path = Append(@, t.pc)]

\* the coroutine returns the envelope
Finish(t, envelope) == [Goto(t, "done") EXCEPT !.envelope = envelope]

\* the coroutine ends with an exception
Escape(t) == [Goto(t, "done") EXCEPT !.raised = TRUE]

\* provider= of the envelopes an adapter builds
Label(provider) ==
    CASE provider = OPENAI -> "OpenAI"
      [] provider = ANTHROPIC -> "Anthropic"
      [] provider = GEMINI -> "Gemini"
      [] provider = PERPLEXITY -> "Perplexity"

\* name of the tool get_tool(action) builds, None when it builds none
ToolName(action) ==
    IF action = GENERATE_WORKOUT_RESULT THEN SAVE_BRAIN_WORKOUT_RESULT
    ELSE IF action = JUDGE_RESPONSE THEN JUDGE_RESPONSE
    ELSE None

\* a handler that swallows the exception: the envelope carries no error
CatchAllSwallows(t, exc) ==
    Finish(t, AIResponse(Label(t.provider), Empty, t.model_arg, NoTokens, NoError))

\* the except Exception handler that closes every send_prompt; exc stands for
\* str(e), the message the SDK or the parser put into the exception
CatchAll(t, exc) ==
    Finish(t, AIResponse(Label(t.provider), Empty, t.model_arg, NoTokens, exc))

\* send_to_provider without the guard for a missing service: the lookup of
\* the service raises
SendToProviderUnguarded(t) ==
    IF get_service(t.provider) = 0
    THEN Escape(t)
    ELSE IF t.model # None
    THEN [Goto(t, "send_prompt") EXCEPT !.model_arg = t.model]
    ELSE IF t.provider \in DefaultModelProviders
    THEN [Goto(t, "send_prompt") EXCEPT !.model_arg = default_models(t.provider)]
    ELSE Escape(t)

\* AIServiceFactory.send_to_provider
SendToProviderBody(t) ==
    IF get_service(t.provider) = 0
    THEN Finish(t, AIResponse(t.provider, Empty,
                              IF t.model # None THEN t.model ELSE "", NoTokens,
                              Err("Service not available for provider: ", {t.provider})))
    ELSE IF t.model # None
    THEN [Goto(t, "send_prompt") EXCEPT !.model_arg = t.model]
    ELSE IF t.provider \in DefaultModelProviders
    THEN [Goto(t, "send_prompt") EXCEPT !.model_arg = default_models(t.provider)]
    ELSE Escape(t)

\* index of the first tool_use / function_call item, 0 if there is none
FirstTool(content) ==
    IF \E i \in 1..Len(content) : content[i].type = "tool_use"
    THEN CHOOSE i \in 1..Len(content) :
            /\ content[i].type = "tool_use"
            /\ \A j \in 1..(i - 1) : content[j].type # "tool_use"
    ELSE 0

\* tokens_used as each adapter reads it off the response
TokensUsed(provider, usage) ==
    IF ~usage.present THEN NoTokens
    ELSE IF provider = ANTHROPIC THEN usage.input_tokens + usage.output_tokens
    ELSE usage.total_tokens

\* send_prompt from the response to the choice of validation or fallback
\* (anthropic_service.py 228-250, gemini_service.py 287-315)
LoopAfterResponse(t, emptyMsg, unexpectedMsg) ==
    LET tokens_used == TokensUsed(t.provider, t.usage)
        u == [t EXCEPT !.tokens_used = tokens_used]
        k == FirstTool(t.content)
    IN IF t.content = <<>>
       THEN Finish(u, AIResponse(Label(t.provider), Empty, t.model_arg, tokens_used,
                                 Err(emptyMsg, {})))
       ELSE IF k = 0 THEN Goto(u, "fallback")
       ELSE IF t.content[k].name = ToolName(t.action) THEN Goto(u, "validate")
       ELSE Finish(u, AIResponse(Label(t.provider), Empty, t.model_arg, tokens_used,
                                 Err(unexpectedMsg, {t.content[k].name})))

\* openai_service.py 156-169: only output[0] is looked at, its name is not
OpenAIAfterResponse(t) ==
    LET tokens_used == TokensUsed(t.provider, t.usage)
        u == [t EXCEPT !.tokens_used = tokens_used]
    IN IF t.content = <<>>
       THEN Finish(u, AIResponse("OpenAI", Empty, t.model_arg, tokens_used,
                                 Err("LLM returned an empty output.", {})))
       ELSE IF t.content[1].type = "tool_use" THEN Goto(u, "validate")
       ELSE Goto(u, "fallback")

\* a send_prompt that issues the remote call again when the response is empty
AfterResponseRetriesEmpty(t) ==
    IF t.content = <<>> /\ t.remote_calls < 2
    THEN Goto(t, "send_prompt")
    ELSE CASE t.provider = OPENAI -> OpenAIAfterResponse(t)
           [] t.provider = ANTHROPIC ->
                 LoopAfterResponse(t, "LLM returned an empty response.",
                                   "LLM responded with an unexpected tool: ")
           [] t.provider = GEMINI ->
                 LoopAfterResponse(t, "LLM returned an empty response.",
                                   "LLM responded with an unexpected function: ")

AfterResponse(t) ==
    CASE t.provider = OPENAI -> OpenAIAfterResponse(t)
      [] t.provider = ANTHROPIC ->
            LoopAfterResponse(t, "LLM returned an empty response.",
                              "LLM responded with an unexpected tool: ")
      [] t.provider = GEMINI ->
            LoopAfterResponse(t, "LLM returned an empty response.",
                              "LLM responded with an unexpected function: ")

\* validate_response called outside send_prompt's try: what it raises leaves
\* the coroutine
AfterValidateOutsideTry(t, args) ==
    LET r == validate_response(t.provider, args, t.action, t.model_arg, t.tokens_used)
        u == [t EXCEPT !.args = args]
    IN IF r.kind = "raise" THEN Escape(u)
       ELSE Finish(u, r.envelope)

\* return await self.validate_response(...), inside send_prompt's try
AfterValidate(t, args) ==
    LET r == validate_response(t.provider, args, t.action, t.model_arg, t.tokens_used)
        u == [t EXCEPT !.args = args]
    IN IF r.kind = "raise" THEN CatchAll(u, r.exc)
       ELSE Finish(u, r.envelope)

\* can the text loop of the fallback read the items
TextLoopRaises(t) ==
    t.provider = GEMINI /\ \E i \in 1..Len(t.content) : t.content[i].type = "other"

\* the items whose text the fallback concatenates
TextSources(t) ==
    IF t.provider = OPENAI
    THEN IF t.content[1].type = "text" THEN {1} ELSE {}
    ELSE {i \in 1..Len(t.content) : t.content[i].type = "text"}

NotCalledMsg(provider) ==
    IF provider = GEMINI THEN "LLM did not call the required function. Response: "
    ELSE "LLM did not call the required tool. Response: "

\* the fallback of send_prompt on the concatenated text content_text, whose
\* JSON document (if it holds one) parses to args
AfterFallback(t, content_text, args) ==
    LET u == [t EXCEPT !.text = content_text]
        v == [u EXCEPT !.args = args]
    IN IF TextLoopRaises(t) THEN CatchAll(t, Err("TypeError", {}))
       ELSE IF strip(content_text) = <<>>
       THEN Finish(u, AIResponse(Label(t.provider), Empty, t.model_arg, t.tokens_used,
                                 Err(NotCalledMsg(t.provider), {})))
       ELSE IF ~JsonLoads(JsonText(content_text)) THEN CatchAll(u, Err("JSONDecodeError", {}))
       ELSE IF ValidFor(t.action, args)
       THEN Finish(v, AIResponse(Label(t.provider),
                                 <<IF t.action = JUDGE_RESPONSE THEN JudgeDump(args)
                                   ELSE WorkoutDump(args)>>,
                                 t.model_arg, TokensOrNone(t.tokens_used), NoError))
       ELSE CatchAll(v, ValidationError(IF t.action = JUDGE_RESPONSE
                                        THEN JudgeErrors(args) ELSE {"__root__"}))

-----------------------------------------------------------------------------
(* The factory's calls *)

\* op: where the call is; of: the operation called; n: calls finished before
Idle(n) == [op |-> "idle", of |-> "", n |-> n]
Running(of) == [op |-> "running", of |-> of, n |-> call.n]
Returned(of) == [op |-> "returned", of |-> of, n |-> call.n]

SEND_TO_PROVIDER == "send_to_provider"
SEND_TO_ALL == "send_to_all"
SEND_PROMPT == "send_prompt"

\* the models argument of send_to_all: provider -> model id, None where absent
ModelMaps == [DefaultModelProviders -> Models]

\* the coroutine the event loop runs: none of them suspends before it is done,
\* so gather runs them one after the other in creation order
Current ==
    IF \E i \in 1..Len(tasks) : tasks[i].pc # "done"
    THEN CHOOSE i \in 1..Len(tasks) :
            /\ tasks[i].pc # "done"
            /\ \A j \in 1..(i - 1) : tasks[j].pc = "done"
    ELSE 0

DispatchInit ==
    /\ env \in [Provider -> EnvValues]
    /\ services = _setup_services(env)
    /\ call = Idle(0)
    /\ tasks = <<>>
    /\ returned = <<>>
    /\ raised = FALSE

\* await factory.send_to_provider(provider, messages, model, action)
SendToProvider(provider, model, action, plan) ==
    /\ call.op = "idle"
    /\ call' = Running(SEND_TO_PROVIDER)
    /\ tasks' = <<NewTask(provider, model, action, plan)>>
    /\ UNCHANGED <<env, services, returned, raised>>

\* the envelope send_to_all answers with when no service is registered
NoServicesEnvelope ==
    AIResponse("None", Empty, "", NoTokens,
               Err("No services are available. Please set up API keys.", {}))

\* a send_to_all that creates coroutines only for the providers models names
SendToAllNamedOnly(models, plans) ==
    /\ call.op = "idle"
    /\ IF Len(services) = 0
       THEN /\ call' = Returned(SEND_TO_ALL)
            /\ returned' = <<NoServicesEnvelope>>
            /\ tasks' = <<>>
       ELSE /\ call' = Running(SEND_TO_ALL)
            /\ returned' = returned
            /\ LET named == SelectSeq(services, LAMBDA s : models[s.provider] # None)
               IN tasks' = [i \in 1..Len(named) |->
                               NewTask(named[i].provider, models[named[i].provider],
                                       None, plans[named[i].provider])]
    /\ UNCHANGED <<env, services, raised>>

\* await factory.send_to_all(messages, models): the coroutines it creates
SendToAll(models, plans) ==
    /\ call.op = "idle"
    /\ IF Len(services) = 0
       THEN /\ call' = Returned(SEND_TO_ALL)
            /\ returned' = <<NoServicesEnvelope>>
            /\ tasks' = <<>>
       ELSE /\ call' = Running(SEND_TO_ALL)
            /\ returned' = returned
            /\ tasks' = [i \in 1..Len(services) |->
                            NewTask(services[i].provider, models[services[i].provider],
                                    None, plans[services[i].provider])]
    /\ UNCHANGED <<env, services, raised>>

\* send_to_provider up to the call of service.send_prompt
StepSendToProvider ==
    /\ Current # 0
    /\ tasks[Current].pc = "send_to_provider"
    /\ tasks' = [tasks EXCEPT ![Current] = SendToProviderBody(@)]
    /\ UNCHANGED <<env, services, call, returned, raised>>

\* send_prompt up to and including the remote call
StepSendPrompt ==
    /\ Current # 0
    /\ tasks[Current].pc = "send_prompt"
    /\ LET t == tasks[Current]
           label == Label(t.provider)
       IN IF ~services[get_service(t.provider)].client
          THEN tasks' = [tasks EXCEPT ![Current] =
                   Finish(t, AIResponse(label, Empty, t.model_arg, NoTokens,
                                        Err("client not initialized (missing API key)", {})))]
          ELSE IF ToolName(t.action) = None
          THEN tasks' = [tasks EXCEPT ![Current] =
                   Finish(t, AIResponse(label, Empty, t.model_arg, NoTokens,
                                        Err("Tool not found", {})))]
          ELSE LET sent == [t EXCEPT !.remote_calls = @ + 1]
               IN \/ /\ t.plan \in {TRANSPORT_ERROR, ANY}
                     /\ tasks' = [tasks EXCEPT ![Current] =
                                     CatchAll(sent, Err("APIConnectionError", {}))]
                  \/ /\ t.plan = VALID_TOOL_CALL
                     /\ \E usage \in Usages :
                          tasks' = [tasks EXCEPT ![Current] =
                              [Goto(sent, "responded") EXCEPT !.usage = usage,
                                           !.content = <<ToolItem(ToolName(t.action))>>]]
                  \/ /\ t.plan = ANY
                     /\ \E usage \in Usages, content \in Contents :
                          tasks' = [tasks EXCEPT ![Current] =
                              [Goto(sent, "responded") EXCEPT !.usage = usage,
                                           !.content = content]]
    /\ UNCHANGED <<env, services, call, returned, raised>>

\* send_prompt from the response to the choice between validation and fallback
StepResponded ==
    /\ Current # 0
    /\ tasks[Current].pc = "responded"
    /\ tasks' = [tasks EXCEPT ![Current] = AfterResponse(@)]
    /\ UNCHANGED <<env, services, call, returned, raised>>

\* the arguments a tool call can carry, given the endpoint's disposition
ToolArgs(t) ==
    {a \in ArgsFor(t.action) :
        /\ a.shape = "badjson" => t.provider = OPENAI
        /\ t.plan = VALID_TOOL_CALL => ValidFor(t.action, a)}

\* validate_response on the arguments of the tool call
StepValidate ==
    /\ Current # 0
    /\ tasks[Current].pc = "validate"
    /\ \E args \in ToolArgs(tasks[Current]) :
          tasks' = [tasks EXCEPT ![Current] = AfterValidate(@, args)]
    /\ UNCHANGED <<env, services, call, returned, raised>>

\* the plain-text fallback of send_prompt
StepFallback ==
    /\ Current # 0
    /\ tasks[Current].pc = "fallback"
    /\ LET t == tasks[Current]
       IN \E content_text \in (IF TextSources(t) = {} THEN {<<>>} ELSE SampleTexts) :
          \E args \in (IF JsonLoads(JsonText(content_text))
                       THEN {a \in ArgsFor(t.action) : a.shape # "badjson"}
                       ELSE {NoArgs}) :
             tasks' = [tasks EXCEPT ![Current] = AfterFallback(t, content_text, args)]
    /\ UNCHANGED <<env, services, call, returned, raised>>

\* perplexity_service.py 36-66: the remote call and model_validate_json on the
\* text of the first choice, which holds a JSON document parsing to args
PerplexityAfterCall(t, failed, usage, content_text, args) ==
    LET sent == [t EXCEPT !.remote_calls = @ + 1]
        u == [sent EXCEPT !.usage = usage, !.text = content_text, !.args = args]
    IN IF failed THEN CatchAll(sent, Err("APIConnectionError", {}))
       ELSE IF JsonLoads(content_text) /\ WorkoutValid(args)
       THEN Finish(u, AIResponse("Perplexity", <<WorkoutDump(args)>>, t.model_arg,
                                 IF usage.present THEN usage.total_tokens ELSE NoTokens,
                                 NoError))
       ELSE CatchAll(u, ValidationError({"__root__"}))

\* await PerplexityService(api_key).send_prompt(messages, model): the adapter
\* the factory does not register, called on its own
SendPromptPerplexity(model, plan) ==
    /\ call.op = "idle"
    /\ call' = Running(SEND_PROMPT)
    /\ tasks' = <<[NewTask(PERPLEXITY, model, GENERATE_WORKOUT_RESULT, plan) EXCEPT
                      !.pc = "perplexity",
                      !.model_arg = IF model = None THEN "sonar" ELSE model]>>
    /\ UNCHANGED <<env, services, returned, raised>>

StepPerplexity ==
    /\ Current # 0
    /\ tasks[Current].pc = "perplexity"
    /\ LET t == tasks[Current]
       IN \/ /\ t.plan \in {TRANSPORT_ERROR, ANY}
             /\ tasks' = [tasks EXCEPT ![Current] =
                             PerplexityAfterCall(t, TRUE, NoUsage, <<>>, NoArgs)]
          \/ /\ t.plan \in {VALID_TOOL_CALL, ANY}
             /\ \E usage \in Usages, content_text \in SampleTexts :
                \E args \in (IF JsonLoads(content_text)
                             THEN {a \in ArgsFor(t.action) : a.shape # "badjson"}
                             ELSE {NoArgs}) :
                   /\ t.plan = VALID_TOOL_CALL =>
                         JsonLoads(content_text) /\ WorkoutValid(args)
                   /\ tasks' = [tasks EXCEPT ![Current] =
                                   PerplexityAfterCall(t, FALSE, usage, content_text, args)]
    /\ UNCHANGED <<env, services, call, returned, raised>>

\* the call returns: the envelope of send_to_provider, the list asyncio.gather
\* builds in send_to_all, or the exception of the first coroutine that raised
Return ==
    /\ call.op = "running"
    /\ Current = 0
    /\ call' = Returned(call.of)
    /\ IF \E i \in 1..Len(tasks) : tasks[i].raised
       THEN raised' = TRUE /\ returned' = <<>>
       ELSE raised' = FALSE /\ returned' = [i \in 1..Len(tasks) |-> tasks[i].envelope]
    /\ UNCHANGED <<env, services, tasks>>

\* the caller is done with the result
Reset ==
    /\ call.op = "returned"
    /\ call.n + 1 < MaxCalls
    /\ call' = Idle(call.n + 1)
    /\ tasks' = <<>>
    /\ returned' = <<>>
    /\ raised' = FALSE
    /\ UNCHANGED <<env, services>>

IdleValidate == vcase = NoArgs /\ vout = NoEnvelope
IdleFlatten == fin = <<>> /\ fout = <<>>
IdleSave == db = <<>> /\ sv = <<>>
IdleShape == prompt = <<>> /\ request = <<>>

Init == DispatchInit /\ IdleValidate /\ IdleFlatten /\ IdleSave /\ IdleShape

Next ==
    \/ \E provider \in Provider, model \in Models, action \in Actions, plan \in RemotePlans :
          SendToProvider(provider, model, action, plan) /\ UNCHANGED <<validateVars, flattenVars, saveVars, shapeVars>>
    \/ \E models \in ModelMaps, plans \in [DefaultModelProviders -> RemotePlans] :
          SendToAll(models, plans) /\ UNCHANGED <<validateVars, flattenVars, saveVars, shapeVars>>
    \/ \E model \in Models, plan \in RemotePlans :
          SendPromptPerplexity(model, plan) /\ UNCHANGED <<validateVars, flattenVars, saveVars, shapeVars>>
    \/ StepPerplexity /\ UNCHANGED <<validateVars, flattenVars, saveVars, shapeVars>>
    \/ StepSendToProvider /\ UNCHANGED <<validateVars, flattenVars, saveVars, shapeVars>>
    \/ StepSendPrompt /\ UNCHANGED <<validateVars, flattenVars, saveVars, shapeVars>>
    \/ StepResponded /\ UNCHANGED <<validateVars, flattenVars, saveVars, shapeVars>>
    \/ StepValidate /\ UNCHANGED <<validateVars, flattenVars, saveVars, shapeVars>>
    \/ StepFallback /\ UNCHANGED <<validateVars, flattenVars, saveVars, shapeVars>>
    \/ Return /\ UNCHANGED <<validateVars, flattenVars, saveVars, shapeVars>>
    \/ Reset /\ UNCHANGED <<validateVars, flattenVars, saveVars, shapeVars>>

Spec == Init /\ [][Next]_vars

-----------------------------------------------------------------------------
(* Properties of the factory and the adapters, checked under Spec *)

\* content non-empty / error non-empty of an envelope
HasContent(e) == e.content # Empty
HasError(e) == e.error # NoError
Exclusive(e) == HasContent(e) # HasError(e)

ReturnedFrom(of) == call.op = "returned" /\ call.of = of

\* C1: send_to_all returns exactly one envelope per registered provider, in
\* whatever way the single sends end, and exactly one synthetic error envelope
\* (content empty, error set) when no provider is registered.
C1_FanOutCompleteness ==
    ReturnedFrom(SEND_TO_ALL) =>
        /\ ~raised
        /\ IF Len(services) = 0
           THEN /\ Len(returned) = 1
                /\ ~HasContent(returned[1])
                /\ HasError(returned[1])
           ELSE /\ Len(returned) = Len(services)
                /\ \A i \in 1..Len(services) :
                      returned[i].provider = Label(services[i].provider)

C1_Witness ==
    /\ ReturnedFrom(SEND_TO_ALL)
    /\ Len(services) = 3
    /\ Len(returned) = 3

\* C2: with two providers registered, when the endpoint of one fails at
\* transport level and the endpoint of the other answers with a schema-valid
\* tool call, send_to_all returns 2 envelopes, exactly one with error set and
\* exactly one with content set.
C2_OneErrorOneContent ==
    ( /\ ReturnedFrom(SEND_TO_ALL)
      /\ Len(services) = 2
      /\ {tasks[1].plan, tasks[2].plan} = {TRANSPORT_ERROR, VALID_TOOL_CALL} )
    => /\ Len(returned) = 2
       /\ Cardinality({i \in 1..2 : HasError(returned[i])}) = 1
       /\ Cardinality({i \in 1..2 : HasContent(returned[i])}) = 1

\* C3: every envelope the factory or an adapter builds has content non-empty
\* or error non-empty, and never both.
C3_EnvelopeExclusivity ==
    /\ \A i \in 1..Len(tasks) :
          (tasks[i].pc = "done" /\ ~tasks[i].raised) => Exclusive(tasks[i].envelope)
    /\ \A i \in 1..Len(returned) : Exclusive(returned[i])

C3_Witness ==
    /\ ReturnedFrom(SEND_TO_PROVIDER)
    /\ Len(returned) = 1
    /\ tasks[1].args.shape = "badjson"
    /\ HasError(returned[1])
    /\ ~HasContent(returned[1])

\* C4: whatever the endpoint does (transport exception, empty output, wrong
\* tool, unparsable text, validation failure, malformed tool arguments), the
\* adapters and the factory return envelopes; no exception reaches the caller.
C4_NeverThrows ==
    /\ ~raised
    /\ \A i \in 1..Len(tasks) : ~tasks[i].raised
    /\ call.op = "returned" =>
          /\ Len(returned) >= 1
          /\ \A i \in 1..Len(returned) : returned[i] # NoEnvelope

C4_Witness ==
    /\ ReturnedFrom(SEND_TO_PROVIDER)
    /\ tasks[1].provider = OPENAI
    /\ tasks[1].path = <<"send_to_provider", "send_prompt", "responded", "validate">>
    /\ tasks[1].args.shape = "badjson"
    /\ returned[1].error.msg = "JSONDecodeError"

\* C5: send_to_provider for a provider with no registered service returns an
\* envelope with the not-available error and empty content, calls no endpoint
\* and does not raise.
C5_UnavailableProvider ==
    (ReturnedFrom(SEND_TO_PROVIDER) /\ tasks[1].provider \notin Registered) =>
        /\ ~raised
        /\ Len(returned) = 1
        /\ ~HasContent(returned[1])
        /\ returned[1].error = Err("Service not available for provider: ", {tasks[1].provider})
        /\ tasks[1].remote_calls = 0

C5_Witness ==
    /\ ReturnedFrom(SEND_TO_PROVIDER)
    /\ tasks[1].provider = ANTHROPIC
    /\ ANTHROPIC \notin Registered
    /\ Len(returned) = 1

\* C6: get_available_services() holds a provider (OpenAI, Anthropic, Gemini,
\* Perplexity) if and only if its credential was present at construction.
C6_CredentialBoundary ==
    \A p \in Provider :
        (\E i \in 1..Len(get_available_services) : get_available_services[i] = p)
            <=> Truthy(env[p])

\* C7: in the OpenAI, Anthropic and Gemini adapters, a response whose tool
\* invocation names another tool than the expected one gives an envelope with
\* the unexpected-tool error and empty content, and neither the validation of
\* its arguments nor the plain-text fallback is attempted.
UnexpectedMsgs ==
    {"LLM responded with an unexpected tool: ", "LLM responded with an unexpected function: "}

OnlyWrongTools(t) ==
    /\ \E k \in 1..Len(t.content) : t.content[k].type = "tool_use"
    /\ \A k \in 1..Len(t.content) :
          t.content[k].type = "tool_use" => t.content[k].name # ToolName(t.action)

Visited(t, pc) == \E k \in 1..Len(t.path) : t.path[k] = pc

C7_UnexpectedTool ==
    \A i \in 1..Len(tasks) :
        ( /\ tasks[i].pc = "done"
          /\ tasks[i].provider \in {OPENAI, ANTHROPIC, GEMINI}
          /\ Visited(tasks[i], "responded")
          /\ OnlyWrongTools(tasks[i]) )
        => /\ tasks[i].envelope.error.msg \in UnexpectedMsgs
           /\ ~HasContent(tasks[i].envelope)
           /\ ~Visited(tasks[i], "validate")
           /\ ~Visited(tasks[i], "fallback")

\* C16: an adapter invocation goes NotSent -> Sent -> one of {ToolMatched,
\* ToolMismatched, TextFallback, Empty} -> one of {Validated,
\* ValidationFailed}; its envelope is a success exactly when it ended in
\* Validated, which it reaches only through ToolMatched or TextFallback, and
\* every other end gives an error envelope.
AdapterPaths ==
    { <<"send_to_provider", "send_prompt">>,
      <<"send_to_provider", "send_prompt", "responded">>,
      <<"send_to_provider", "send_prompt", "responded", "validate">>,
      <<"send_to_provider", "send_prompt", "responded", "fallback">> }

\* the response holds a tool invocation and the first one names the expected tool
ToolMatched(t) ==
    /\ Visited(t, "responded")
    /\ FirstTool(t.content) # 0
    /\ t.content[FirstTool(t.content)].name = ToolName(t.action)

\* the response holds tool invocations, the first one of another tool
ToolMismatched(t) ==
    /\ Visited(t, "responded")
    /\ FirstTool(t.content) # 0
    /\ t.content[FirstTool(t.content)].name # ToolName(t.action)

TextFallback(t) == Visited(t, "fallback")

\* the candidate mapping passed validation, directly or after the repair
Validated(t) ==
    /\ t.args # NoArgs
    /\ \/ ValidFor(t.action, t.args)
       \/ /\ t.provider = ANTHROPIC
          /\ t.action = JUDGE_RESPONSE
          /\ Visited(t, "validate")
          /\ FixError(t.args) = NoError

C16_AdapterStateMachine ==
    \A i \in 1..Len(tasks) :
        ( /\ tasks[i].pc = "done"
          /\ tasks[i].provider \in {OPENAI, ANTHROPIC, GEMINI}
          /\ Visited(tasks[i], "send_prompt") )
        => /\ tasks[i].path \in AdapterPaths
           /\ ~tasks[i].raised
           /\ HasContent(tasks[i].envelope) <=> Validated(tasks[i])
           /\ Validated(tasks[i]) => (ToolMatched(tasks[i]) \/ TextFallback(tasks[i]))
           /\ ~Validated(tasks[i]) =>
                 (HasError(tasks[i].envelope) /\ ~HasContent(tasks[i].envelope))

\* C17: whenever the response holds a tool invocation that names the expected
\* tool, the adapter passes the arguments of that invocation to validation,
\* whatever else the response holds and wherever the invocation stands in it.
HoldsExpectedTool(t) ==
    \E k \in 1..Len(t.content) : t.content[k] = ToolItem(ToolName(t.action))

\* the item whose arguments send_prompt hands to validate_response
ValidatedItem(t) == IF t.provider = OPENAI THEN 1 ELSE FirstTool(t.content)

C17_MatchingToolIsUsed ==
    \A i \in 1..Len(tasks) :
        ( /\ tasks[i].pc = "done"
          /\ tasks[i].provider \in {OPENAI, ANTHROPIC, GEMINI}
          /\ Visited(tasks[i], "responded")
          /\ HoldsExpectedTool(tasks[i]) )
        => /\ Visited(tasks[i], "validate")
           /\ tasks[i].content[ValidatedItem(tasks[i])] = ToolItem(ToolName(tasks[i].action))

\* C18: when the response is plain text without a tool invocation, the adapter
\* strips the Markdown code fence that wraps the text, parses the remainder as
\* JSON and validates it; when the text does not parse, the invocation ends
\* with an error envelope (content empty, error set) and no candidate mapping
\* is extracted from it.
Unwrapped(s) ==
    LET x == strip(s)
    IN IF Len(x) >= 2 /\ x[1] \in {FENCE, FENCE_JSON} /\ x[Len(x)] = FENCE
       THEN strip(SubSeq(x, 2, Len(x) - 1))
       ELSE x

PlainText(t) ==
    /\ t.pc = "done"
    /\ t.provider \in {OPENAI, ANTHROPIC, GEMINI}
    /\ Visited(t, "fallback")
    /\ FirstTool(t.content) = 0
    /\ strip(t.text) # <<>>

C18_TextFallback ==
    \A i \in 1..Len(tasks) :
        PlainText(tasks[i]) =>
            /\ Unwrapped(tasks[i].text) = <<DOC>> =>
                  /\ tasks[i].args # NoArgs
                  /\ HasContent(tasks[i].envelope) <=> ValidFor(tasks[i].action, tasks[i].args)
                  /\ HasError(tasks[i].envelope) <=> ~ValidFor(tasks[i].action, tasks[i].args)
            /\ ~JsonLoads(JsonText(tasks[i].text)) =>
                  /\ tasks[i].args = NoArgs
                  /\ HasError(tasks[i].envelope)
                  /\ ~HasContent(tasks[i].envelope)

C18_Witness ==
    \E i \in 1..Len(tasks) :
        /\ PlainText(tasks[i])
        /\ tasks[i].text = <<FENCE_JSON, "\n", DOC, "\n", FENCE>>
        /\ HasContent(tasks[i].envelope)

\* C19: one send_prompt invocation with a recognised action and an
\* initialised client calls the remote endpoint exactly once, whatever
\* follows (transport failure, empty output, wrong tool, failed parse, failed
\* validation, failed repair), and a failure comes back as an error envelope.
Invoked(t) ==
    /\ t.pc = "done"
    /\ t.provider \in {OPENAI, ANTHROPIC, GEMINI}
    /\ Visited(t, "send_prompt")
    /\ ToolName(t.action) # None
    /\ services[get_service(t.provider)].client

C19_SingleRemoteCall ==
    \A i \in 1..Len(tasks) :
        Invoked(tasks[i]) =>
            /\ tasks[i].remote_calls = 1
            /\ ~tasks[i].raised
            /\ ~HasContent(tasks[i].envelope) => HasError(tasks[i].envelope)

C19_Witness ==
    \E i \in 1..Len(tasks) :
        /\ Invoked(tasks[i])
        /\ tasks[i].provider = ANTHROPIC
        /\ Visited(tasks[i], "validate")
        /\ tasks[i].envelope.error.fix_msg # ""
        /\ tasks[i].remote_calls = 1

\* C24: every envelope returned after the remote call has answered carries the
\* token usage the provider reported (Anthropic: input + output, OpenAI and
\* Gemini: the total), on success and on error alike; when the provider
\* reported no usage, tokens_used is None, never 0.
C24_TokensCarried ==
    \A i \in 1..Len(tasks) :
        ( /\ tasks[i].pc = "done"
          /\ tasks[i].provider \in {OPENAI, ANTHROPIC, GEMINI}
          /\ Visited(tasks[i], "responded") )
        => tasks[i].envelope.tokens_used =
              IF tasks[i].usage.present
              THEN TokensUsed(tasks[i].provider, tasks[i].usage)
              ELSE NoTokens

\* C25: in send_to_all with two or more providers the round trips are
\* concurrent: every coroutine suspends at its remote call, so by the time a
\* coroutine has finished (its round trip is over) the next one has issued
\* its own remote call.
C25_ConcurrentRoundTrips ==
    (call.of = SEND_TO_ALL /\ Len(tasks) >= 2) =>
        \A i \in 1..(Len(tasks) - 1) :
            tasks[i].pc = "done" =>
                /\ tasks[i].remote_calls >= 1
                /\ tasks[i + 1].remote_calls >= 1

\* C27: for a registered provider send_to_provider invokes the adapter with
\* the caller's model id when one is given and with the provider's hardcoded
\* default when it is omitted; in send_to_all a provider absent from the
\* models map gets its default.  The envelope's model is the model id the
\* adapter was invoked with.
C27_ModelSelection ==
    \A i \in 1..Len(tasks) :
        ( /\ tasks[i].pc = "done"
          /\ tasks[i].provider \in Registered
          /\ Visited(tasks[i], "send_prompt") )
        => /\ tasks[i].model_arg = IF tasks[i].model # None THEN tasks[i].model
                                   ELSE default_models(tasks[i].provider)
           /\ tasks[i].envelope.model = tasks[i].model_arg

C27_Witness ==
    /\ call.of = SEND_TO_ALL
    /\ Len(tasks) >= 2
    /\ tasks[1].pc = "done" /\ tasks[2].pc = "done"
    /\ tasks[1].model = None /\ tasks[1].envelope.model = default_models(tasks[1].provider)
    /\ tasks[2].model = "custom-model" /\ tasks[2].envelope.model = "custom-model"

\* C13: in one send_to_all invocation exactly one remote call is made to the
\* endpoint of each available provider: none is left out, none is called twice.
C13_OneRemoteCallPerProvider ==
    (ReturnedFrom(SEND_TO_ALL) /\ Len(services) >= 1) =>
        /\ Len(tasks) = Len(services)
        /\ \A i \in 1..Len(tasks) :
              /\ tasks[i].provider = services[i].provider
              /\ tasks[i].remote_calls = 1


-----------------------------------------------------------------------------
(* SpecFactory: the factory's registry under calls of its four methods and  *)
(* under changes of the credentials in the environment after construction.  *)

GET_SERVICE == "get_service"
GET_AVAILABLE_SERVICES == "get_available_services"

\* a get_service that probes the environment again before it answers
GetServiceReprobes(provider) ==
    /\ call.op = "idle"
    /\ call' = Returned(GET_SERVICE)
    /\ services' = _setup_services(env)
    /\ returned' = IF \E i \in 1..Len(services') : services'[i].provider = provider
                   THEN <<CHOOSE sv1 \in {services'[i] : i \in 1..Len(services')} :
                             sv1.provider = provider>>
                   ELSE <<>>
    /\ UNCHANGED <<env, tasks, raised>>

\* factory.get_service(provider): the service, nothing for None
GetService(provider) ==
    /\ call.op = "idle"
    /\ call' = Returned(GET_SERVICE)
    /\ returned' = IF get_service(provider) = 0 THEN <<>>
                   ELSE <<services[get_service(provider)]>>
    /\ UNCHANGED <<env, services, tasks, raised>>

\* factory.get_available_services()
GetAvailableServices ==
    /\ call.op = "idle"
    /\ call' = Returned(GET_AVAILABLE_SERVICES)
    /\ returned' = get_available_services
    /\ UNCHANGED <<env, services, tasks, raised>>

\* the process environment changes: a credential is set, replaced or revoked
SetEnv(provider, value) ==
    /\ env[provider] # value
    /\ env' = [env EXCEPT ![provider] = value]
    /\ UNCHANGED <<services, call, tasks, returned, raised>>

FactoryNext ==
    \/ \E provider \in Provider :
          GetService(provider) /\ UNCHANGED <<validateVars, flattenVars, saveVars, shapeVars>>
    \/ GetAvailableServices /\ UNCHANGED <<validateVars, flattenVars, saveVars, shapeVars>>
    \/ \E provider \in DefaultModelProviders, value \in EnvValues :
          SetEnv(provider, value) /\ UNCHANGED <<validateVars, flattenVars, saveVars, shapeVars>>
    \/ \E provider \in Provider, plan \in {TRANSPORT_ERROR, VALID_TOOL_CALL} :
          SendToProvider(provider, None, JUDGE_RESPONSE, plan)
             /\ UNCHANGED <<validateVars, flattenVars, saveVars, shapeVars>>
    \/ \E plan \in {TRANSPORT_ERROR, VALID_TOOL_CALL} :
          SendToAll([p \in DefaultModelProviders |-> None],
                    [p \in DefaultModelProviders |-> plan])
             /\ UNCHANGED <<validateVars, flattenVars, saveVars, shapeVars>>
    \/ StepSendToProvider /\ UNCHANGED <<validateVars, flattenVars, saveVars, shapeVars>>
    \/ StepSendPrompt /\ UNCHANGED <<validateVars, flattenVars, saveVars, shapeVars>>
    \/ StepResponded /\ UNCHANGED <<validateVars, flattenVars, saveVars, shapeVars>>
    \/ StepValidate /\ UNCHANGED <<validateVars, flattenVars, saveVars, shapeVars>>
    \/ Return /\ UNCHANGED <<validateVars, flattenVars, saveVars, shapeVars>>
    \/ Reset /\ UNCHANGED <<validateVars, flattenVars, saveVars, shapeVars>>

SpecFactory == Init /\ [][FactoryNext]_vars

\* C23: the registered providers are a snapshot taken at construction: no
\* get_service, get_available_services, send_to_provider or send_to_all call
\* and no later change of the credentials in the environment adds or removes
\* a registered provider, and get_available_services answers that snapshot.
C23_ConstructTimeSnapshot ==
    /\ [][services' = services]_vars
    /\ [](ReturnedFrom(GET_AVAILABLE_SERVICES) =>
             returned = [i \in 1..Len(services) |-> services[i].provider])

\* the environment no longer matches the registry, and the factory has answered
C23_Witness ==
    /\ services # _setup_services(env)
    /\ ReturnedFrom(GET_SERVICE)
    /\ call.n >= 1
    /\ returned # <<>>
    /\ ~Truthy(env[returned[1].provider])

-----------------------------------------------------------------------------
(* SpecValidate: validate_response of each adapter on the judge action,     *)
(* applied to every candidate mapping of the bounded set.                   *)

ToolCallAdapters == {OPENAI, ANTHROPIC, GEMINI}

ValidateCase(provider, action, args, tokens_used) ==
    [provider |-> provider, action |-> action, args |-> args, tokens_used |-> tokens_used]

Pending == [stage |-> "pending", result |-> ReturnsNone]
Done(result) == [stage |-> "done", result |-> result]

\* a key the JudgeResponse model does not declare; its JSON schema does not
\* forbid it (no additionalProperties: false is generated)
ExtraKey == "overall"

\* mappings that carry the undeclared key next to the declared ones
ExtraKeyMappings ==
    {[k \in JudgeFields \cup {ExtraKey} |-> IF k = ExtraKey THEN JInt(5) ELSE v] :
        v \in {JInt(4), JNull, JAbsent}}

JudgeArgs ==
    {Args("dict", m, FALSE) : m \in JudgeMappings \cup ExtraKeyMappings}
        \cup {Args("notdict", NoFields, FALSE)}

NoEnv == [p \in Provider |-> None]

IdleDispatch ==
    /\ env = NoEnv
    /\ services = _setup_services(NoEnv)
    /\ call = Idle(0)
    /\ tasks = <<>>
    /\ returned = <<>>
    /\ raised = FALSE

ValidateInit ==
    /\ vcase \in {ValidateCase(p, JUDGE_RESPONSE, a, u) :
                    p \in ToolCallAdapters, a \in JudgeArgs, u \in {NoTokens, 12}}
    /\ vout = Pending
    /\ IdleDispatch
    /\ IdleFlatten
    /\ IdleSave
    /\ IdleShape

\* await service.validate_response(tool_call, action, model, tokens_used)
ValidateResponse(provider) ==
    /\ vout.stage = "pending"
    /\ vcase.provider = provider
    /\ vout' = Done(validate_response(provider, vcase.args, vcase.action,
                                      default_models(provider), vcase.tokens_used))
    /\ UNCHANGED <<vcase, dispatchVars, flattenVars, saveVars, shapeVars>>

ValidateNext ==
    \/ ValidateResponse(OPENAI)
    \/ ValidateResponse(ANTHROPIC)
    \/ ValidateResponse(GEMINI)

SpecValidate == ValidateInit /\ [][ValidateNext]_vars

\* a markup-like string (one holding a parameter tag)
MarkupLike(v) == v.t = "str" /\ HasParameterTag(v.s)

\* a markup-like string with an integer somewhere after the word score
EmbedsScore(v) ==
    /\ MarkupLike(v)
    /\ \E i, j \in 1..Len(v.s) : i < j /\ v.s[i] = "score" /\ v.s[j] \in Digits

\* the judge validation of the Anthropic adapter has answered a mapping whose
\* strict validation failed, and every field that failed is a markup-like string
RepairCase ==
    /\ vout.stage = "done"
    /\ vcase.provider = ANTHROPIC
    /\ vcase.action = JUDGE_RESPONSE
    /\ vcase.args.shape = "dict"
    /\ ~JudgeValid(vcase.args)
    /\ \A f \in JudgeErrors(vcase.args) : MarkupLike(vcase.args.judge[f])

Success(result) ==
    /\ result.kind = "return"
    /\ HasContent(result.envelope)
    /\ ~HasError(result.envelope)

\* C8: when strict validation fails and a field arrived as a markup-like string
\* embedding a numeric score (such as score=4), the repair pass replaces the
\* field by {score: 4, reason: "automatically extracted score 4"}, the repaired
\* mapping passes validation and the envelope is a success.
C8_RepairExtractsScore ==
    RepairCase =>
        \A f \in JudgeFields :
            EmbedsScore(vcase.args.judge[f]) =>
                /\ FixedArgs(vcase.args).judge[f]
                      = JDict(4, <<"Automatically extracted score ", "4">>)
                /\ JudgeValid(FixedArgs(vcase.args))
                /\ Success(vout.result)

\* C9: when a malformed markup-like string field holds no extractable integer,
\* the repair pass puts the neutral default score 3 with a could-not-parse
\* reason in its place, the repaired mapping is validated again and a success
\* envelope is returned.
C9_RepairDefaultsToNeutral ==
    RepairCase =>
        \A f \in JudgeFields :
            (MarkupLike(vcase.args.judge[f]) /\ ~EmbedsScore(vcase.args.judge[f])) =>
                /\ FixedArgs(vcase.args).judge[f]
                      = JDict(3, <<"Could not parse malformed input">>)
                /\ Success(vout.result)

\* the candidate satisfies the JSON schema of JudgeResponse: an object whose
\* declared keys, where present, hold an integer or null
SatisfiesJudgeSchema(args) ==
    /\ args.shape = "dict"
    /\ \A f \in JudgeFields : args.judge[f].t \in {"absent", "null", "int"}

\* the keys the candidate mapping holds
KeysOf(args) == {k \in DOMAIN args.judge : args.judge[k].t # "absent"}

\* C12: for a candidate mapping that satisfies the target schema, validation
\* succeeds and the object serialised into content holds every field of the
\* input with the input's value: no field of the input is dropped.
C12_ValidatorRoundTrip ==
    (vout.stage = "done" /\ SatisfiesJudgeSchema(vcase.args)) =>
        /\ Success(vout.result)
        /\ \A k \in KeysOf(vcase.args) :
              /\ k \in DOMAIN vout.result.envelope.content[1].fields
              /\ vout.result.envelope.content[1].fields[k] = vcase.args.judge[k]

\* the Anthropic judge validation has answered a mapping that failed strict
\* validation and whose repair failed too
RepairFailed ==
    /\ vout.stage = "done"
    /\ vcase.provider = ANTHROPIC
    /\ vcase.action = JUDGE_RESPONSE
    /\ ~JudgeValid(vcase.args)
    /\ FixError(vcase.args) # NoError

\* C20: when strict validation fails and the repair pass fails too, the error
\* in the envelope is the error of the original strict-validation failure and
\* not the error of the repair attempt.
C20_OriginalErrorOnly ==
    RepairFailed =>
        /\ vout.result.kind = "return"
        /\ vout.result.envelope.error.detail = JudgeErrors(vcase.args)
        /\ vout.result.envelope.error.fix_msg = ""
        /\ vout.result.envelope.error.fix_detail = {}

\* C20 as the code has it: the envelope is an error envelope whose error holds
\* the original strict-validation error followed by the error of the repair
\* attempt.
C20_BothErrors ==
    RepairFailed =>
        /\ vout.result.kind = "return"
        /\ ~HasContent(vout.result.envelope)
        /\ vout.result.envelope.error.detail = JudgeErrors(vcase.args)
        /\ vout.result.envelope.error.detail # {}
        /\ vout.result.envelope.error.fix_msg \in {"AttributeError", "ValidationError"}
        /\ vcase.args.shape = "dict" =>
              vout.result.envelope.error.fix_detail = JudgeErrors(FixedArgs(vcase.args))

C20_Witness ==
    /\ RepairFailed
    /\ vcase.args.shape = "dict"
    /\ vout.result.envelope.error.fix_msg = "ValidationError"
    /\ vout.result.envelope.error.fix_detail # {}

-----------------------------------------------------------------------------
(* JSON schemas, as model_json_schema() builds them.  A schema node is a    *)
(* dict; the keys the flattener reads are kept, a key with the empty value  *)
(* is absent.                                                               *)

EmptyNode ==
    [ref |-> <<>>, anyOf |-> <<>>, props |-> <<>>, items |-> <<>>, type |-> "", title |-> ""]

TypeNode(type) == [EmptyNode EXCEPT !.type = type]
\* {"$ref": "#/$defs/<name>"}
RefNode(name) == [EmptyNode EXCEPT !.ref = <<"#", "$defs", name>>]
\* List[T]
ArrayOf(node) == [EmptyNode EXCEPT !.type = "array", !.items = <<node>>]
\* Optional[T] of a field: {"anyOf": [T, {"type": "null"}], "title": ...}
OptionalOf(node, title) ==
    [EmptyNode EXCEPT !.anyOf = <<node, TypeNode("null")>>, !.title = title]
\* a model: {"properties": {...}, "title": ..., "type": "object"}
ObjectNode(title, props) ==
    [EmptyNode EXCEPT !.type = "object", !.props = props, !.title = title]
Prop(name, schema) == [name |-> name, schema |-> schema]

Schema(hasDefs, defs, root) == [hasDefs |-> hasDefs, defs |-> defs, root |-> root]

-----------------------------------------------------------------------------
(* services/gemini_service.py: get_flattened_schema *)

\* dict.update: the keys of other replace those of part
Update(part, other) ==
    [ref |-> IF other.ref # <<>> THEN other.ref ELSE part.ref,
     anyOf |-> IF other.anyOf # <<>> THEN other.anyOf ELSE part.anyOf,
     props |-> IF other.props # <<>> THEN other.props ELSE part.props,
     items |-> IF other.items # <<>> THEN other.items ELSE part.items,
     type |-> IF other.type # "" THEN other.type ELSE part.type,
     title |-> IF other.title # "" THEN other.title ELSE part.title]

\* ref.split("/")[-1]
RefName(ref) == ref[Len(ref)]

\* a $ref met again and left in place
CutRefKeepsRef(schema_part) == [schema_part EXCEPT !.type = "object"]

\* a $ref met again: schema_part.pop("$ref"); schema_part.update({"type": "object"})
CutRef(schema_part) == [schema_part EXCEPT !.ref = <<>>, !.type = "object"]

\* a $ref met first: schema_part.pop("$ref"); schema_part.update(defs[ref_name].copy())
InlineRef(schema_part, definition) == Update([schema_part EXCEPT !.ref = <<>>], definition)

\* index of the first anyOf option whose type is not "null", 0 if there is none
FirstNonNull(options) ==
    IF \E i \in 1..Len(options) : options[i].type # "null"
    THEN CHOOSE i \in 1..Len(options) :
            /\ options[i].type # "null"
            /\ \A j \in 1..(i - 1) : options[j].type = "null"
    ELSE 0

\* what a call of _resolve leaves: the node, resolved_refs, and whether the
\* interpreter gave up on the depth of the call stack (RecursionError)
Out(part, resolved) == [part |-> part, resolved |-> resolved, raised |-> FALSE]
RecursionError(part, resolved) == [part |-> part, resolved |-> resolved, raised |-> TRUE]

RECURSIVE _resolve(_, _, _, _)
RECURSIVE ResolveProps(_, _, _, _, _)

\* the loop over schema_part["properties"].items(), from property i on
ResolveProps(defs, props, i, resolved_refs, depth) ==
    IF i > Len(props) THEN Out(props, resolved_refs)
    ELSE LET r == _resolve(defs, props[i].schema, resolved_refs, depth + 1)
         IN IF r.raised THEN RecursionError(props, r.resolved)
            ELSE ResolveProps(defs, [props EXCEPT ![i].schema = r.part], i + 1,
                              r.resolved, depth)

\* properties, items and the title of _resolve (lines 60-65)
ResolveChildren(defs, schema_part, resolved_refs, depth) ==
    LET p == ResolveProps(defs, schema_part.props, 1, resolved_refs, depth)
        q == IF schema_part.items # <<>> /\ ~p.raised
             THEN _resolve(defs, schema_part.items[1], p.resolved, depth + 1)
             ELSE Out(EmptyNode, p.resolved)
    IN IF p.raised \/ q.raised THEN RecursionError(schema_part, q.resolved)
       ELSE Out([schema_part EXCEPT
                    !.props = p.part,
                    !.items = IF schema_part.items # <<>> THEN <<q.part>> ELSE <<>>,
                    !.title = ""],
                q.resolved)

\* the anyOf step of _resolve (lines 49-58) and what follows it
ResolveAnyOf(defs, schema_part, resolved_refs, depth) ==
    LET k == FirstNonNull(schema_part.anyOf)
    IN IF schema_part.anyOf # <<>> /\ k # 0
       THEN LET r == _resolve(defs, Update([schema_part EXCEPT !.anyOf = <<>>],
                                           schema_part.anyOf[k]),
                              resolved_refs, depth + 1)
            IN IF r.raised THEN r
               ELSE ResolveChildren(defs, r.part, r.resolved, depth)
       ELSE ResolveChildren(defs, schema_part, resolved_refs, depth)

\* _resolve(schema_part) entered at the given depth of the call stack: the
\* node as the call leaves it, and resolved_refs
_resolve(defs, schema_part, resolved_refs, depth) ==
    IF depth > RecursionLimit THEN RecursionError(schema_part, resolved_refs)
    ELSE IF schema_part.ref # <<>>
    THEN IF schema_part.ref \in resolved_refs
         THEN Out(CutRef(schema_part), resolved_refs)
         ELSE IF RefName(schema_part.ref) \in DOMAIN defs
         THEN LET r == _resolve(defs,
                                InlineRef(schema_part, defs[RefName(schema_part.ref)]),
                                resolved_refs \cup {schema_part.ref}, depth + 1)
              IN IF r.raised THEN r
                 ELSE ResolveAnyOf(defs, r.part, r.resolved, depth)
         ELSE ResolveAnyOf(defs, schema_part, resolved_refs, depth)
    ELSE ResolveAnyOf(defs, schema_part, resolved_refs, depth)

\* a flattener without the early return for a schema that has no $defs
get_flattened_schema_no_return(schema) ==
    _resolve(IF schema.hasDefs THEN schema.defs ELSE <<>>, schema.root, {}, 1)

\* the schema returned, or the RecursionError that leaves the function
get_flattened_schema(schema) ==
    IF ~schema.hasDefs THEN Out(schema.root, {})
    ELSE _resolve(schema.defs, schema.root, {}, 1)

-----------------------------------------------------------------------------
(* The schemas of the repository's models *)

OptStr(title) == OptionalOf(TypeNode("string"), title)
OptInt(title) == OptionalOf(TypeNode("integer"), title)
OptModel(name, title) == OptionalOf(RefNode(name), title)
OptList(node, title) == OptionalOf(ArrayOf(node), title)

\* models/tiles/FeedbackTile.py
FeedbackTileSchema ==
    ObjectNode("FeedbackTile",
        << Prop("title", OptStr("Title")), Prop("detail", OptStr("Detail")),
           Prop("importance", OptStr("Importance")), Prop("next_steps", OptStr("Next Steps")),
           Prop("reflection_question", OptStr("Reflection Question")),
           Prop("evidence", OptStr("Evidence")) >>)

\* models/tiles/HistoryTile.py
HistoryTileSchema ==
    ObjectNode("HistoryTile",
        << Prop("title", OptStr("Title")),
           Prop("hasImplemented", OptionalOf(TypeNode("boolean"), "Hasimplemented")) >>)

\* models/tiles/MilestoneTile.py
MilestoneTileSchema ==
    ObjectNode("MilestoneTile",
        << Prop("title", OptStr("Title")), Prop("detail", OptStr("Detail")) >>)

\* models/MomentumMeasure.py
MomentumMeasureSchema ==
    ObjectNode("MomentumMeasure",
        << Prop("last_workout", OptList(RefNode("HistoryTile"), "Last Workout")),
           Prop("within_team", OptList(RefNode("HistoryTile"), "Within Team")),
           Prop("across_everything", OptList(RefNode("HistoryTile"), "Across Everything")) >>)

\* models/ReasoningRefinement.py
ReasoningRefinementSchema ==
    ObjectNode("ReasoningRefinement",
        << Prop("blind_spots", OptList(RefNode("FeedbackTile"), "Blind Spots")),
           Prop("unclear_assumptions", OptList(TypeNode("string"), "Unclear Assumptions")),
           Prop("logic_issues", OptList(TypeNode("string"), "Logic Issues")),
           Prop("creativity_issues", OptList(TypeNode("string"), "Creativity Issues")) >>)

\* models/Skill.py: sub_skills refers to Skill itself
SkillSchema ==
    ObjectNode("Skill",
        << Prop("skill_name", OptStr("Skill Name")),
           Prop("score_explanation", OptStr("Score Explanation")),
           Prop("strength_spotlights", OptList(RefNode("FeedbackTile"), "Strength Spotlights")),
           Prop("wisdom_whispers", OptList(RefNode("FeedbackTile"), "Wisdom Whispers")),
           Prop("sub_skills", OptList(RefNode("Skill"), "Sub Skills")) >>)

\* models/WorkoutRound.py
WorkoutRoundSchema ==
    ObjectNode("WorkoutRound",
        << Prop("round_number", OptInt("Round Number")),
           Prop("skill", OptModel("Skill", "")) >>)

\* BrainWorkoutResult.model_json_schema()
BrainWorkoutResultSchema ==
    Schema(TRUE,
        [n \in {"FeedbackTile", "HistoryTile", "MilestoneTile", "MomentumMeasure",
                "ReasoningRefinement", "Skill", "WorkoutRound"} |->
            CASE n = "FeedbackTile" -> FeedbackTileSchema
              [] n = "HistoryTile" -> HistoryTileSchema
              [] n = "MilestoneTile" -> MilestoneTileSchema
              [] n = "MomentumMeasure" -> MomentumMeasureSchema
              [] n = "ReasoningRefinement" -> ReasoningRefinementSchema
              [] n = "Skill" -> SkillSchema
              [] n = "WorkoutRound" -> WorkoutRoundSchema],
        ObjectNode("BrainWorkoutResult",
            << Prop("accomplishments", OptList(RefNode("MilestoneTile"), "Accomplishments")),
               Prop("skills", OptModel("Skill", "")),
               Prop("momentum_measure", OptModel("MomentumMeasure", "")),
               Prop("reasoning", OptModel("ReasoningRefinement", "")),
               Prop("next_steps", OptList(RefNode("MilestoneTile"), "Next Steps")),
               Prop("workout_rounds", OptList(RefNode("WorkoutRound"), "Workout Rounds")) >>))

\* Skill.model_json_schema(): the root is the reference to the definition
SkillRootSchema ==
    Schema(TRUE,
        [n \in {"FeedbackTile", "Skill"} |->
            IF n = "Skill" THEN SkillSchema ELSE FeedbackTileSchema],
        RefNode("Skill"))

\* JudgeResponse.model_json_schema(): no model is referenced, so no $defs
JudgeResponseSchema ==
    Schema(FALSE, <<>>,
        ObjectNode("JudgeResponse",
            << Prop("clarity", OptInt("Clarity")), Prop("specificity", OptInt("Specificity")),
               Prop("relevance", OptInt("Relevance")),
               Prop("actionability", OptInt("Actionability")),
               Prop("approachability", OptInt("Approachability")) >>))

-----------------------------------------------------------------------------
(* SpecFlatten: get_flattened_schema applied to the schemas of the models   *)
(* and to every schema of a bounded family built the way                    *)
(* model_json_schema() builds them: a root model whose fields are strings   *)
(* or refer to a tree node model "Node" (with a field children) or to a     *)
(* model "Leaf".                                                            *)

\* the ways a field can refer to the model name
RefShapes(name) ==
    {RefNode(name), OptModel(name, ""), ArrayOf(RefNode(name)),
     OptList(RefNode(name), "Field")}

FieldShapes == RefShapes("Node") \cup RefShapes("Leaf") \cup {OptStr("Field")}

LeafSchema == ObjectNode("Leaf", << Prop("title", OptStr("Title")) >>)

NodeSchema(children) ==
    ObjectNode("Node", << Prop("name", OptStr("Name")), Prop("children", children) >>)

RECURSIVE Refers(_, _)
\* does the schema node hold a reference to the model name
Refers(node, name) ==
    \/ node.ref # <<>> /\ RefName(node.ref) = name
    \/ \E i \in 1..Len(node.anyOf) : Refers(node.anyOf[i], name)
    \/ \E i \in 1..Len(node.props) : Refers(node.props[i].schema, name)
    \/ \E i \in 1..Len(node.items) : Refers(node.items[i], name)

FieldNames == <<"first", "second", "third", "fourth">>

RootSchema(fields) ==
    ObjectNode("Root", [i \in 1..Len(fields) |-> Prop(FieldNames[i], fields[i])])

\* the schema of a root model: $defs holds the models reachable from the root
GeneratedSchema(fields, children) ==
    LET root == RootSchema(fields)
        hasNode == Refers(root, "Node")
        hasLeaf == Refers(root, "Leaf") \/ (hasNode /\ Refers(children, "Leaf"))
        names == (IF hasNode THEN {"Node"} ELSE {}) \cup (IF hasLeaf THEN {"Leaf"} ELSE {})
    IN Schema(names # {},
              [n \in names |-> IF n = "Node" THEN NodeSchema(children) ELSE LeafSchema],
              root)

GeneratedSchemas ==
    {GeneratedSchema(fields, children) :
        fields \in UNION {[1..n -> FieldShapes] : n \in 1..MaxRootFields},
        children \in FieldShapes}

FlattenInputs ==
    {BrainWorkoutResultSchema, SkillRootSchema, JudgeResponseSchema} \cup GeneratedSchemas

FlattenPending == [stage |-> "pending", schema |-> EmptyNode, again |-> <<>>]

FlattenInit ==
    /\ fin \in FlattenInputs
    /\ fout = FlattenPending
    /\ IdleDispatch
    /\ IdleValidate
    /\ IdleSave
    /\ IdleShape

\* schema = get_flattened_schema(cls), as GeminiService.get_tool calls it
GetFlattenedSchema ==
    /\ fout.stage = "pending"
    /\ LET r == get_flattened_schema(fin)
       IN fout' = [stage |-> IF r.raised THEN "raised" ELSE "done", schema |-> r.part,
                   again |-> <<>>]
    /\ UNCHANGED <<fin, dispatchVars, validateVars, saveVars, shapeVars>>

\* the flattener applied to the dict it returned: $defs was popped from it
\* (line 26), so the dict has no $defs key
FlattenAgain ==
    /\ fout.stage = "done"
    /\ fout.again = <<>>
    /\ LET r == get_flattened_schema(Schema(FALSE, <<>>, fout.schema))
       IN fout' = [fout EXCEPT !.again = <<[raised |-> r.raised, schema |-> r.part]>>]
    /\ UNCHANGED <<fin, dispatchVars, validateVars, saveVars, shapeVars>>

FlattenNext == GetFlattenedSchema \/ FlattenAgain

SpecFlatten == FlattenInit /\ [][FlattenNext]_vars

RECURSIVE HasRef(_)
\* a $ref key somewhere in the schema
HasRef(node) ==
    \/ node.ref # <<>>
    \/ \E i \in 1..Len(node.anyOf) : HasRef(node.anyOf[i])
    \/ \E i \in 1..Len(node.props) : HasRef(node.props[i].schema)
    \/ \E i \in 1..Len(node.items) : HasRef(node.items[i])

\* a model of the schema refers to itself
SelfReferencing(schema) ==
    schema.hasDefs /\ \E n \in DOMAIN schema.defs : Refers(schema.defs[n], n)

\* C10: on a schema with a self-referencing node type (Skill.sub_skills refers
\* to Skill) get_flattened_schema comes to an end instead of recursing until
\* the interpreter gives up, and the schema it returns holds no $ref at any
\* depth.
C10_CycleTermination ==
    (fout.stage # "pending" /\ SelfReferencing(fin))
        => (fout.stage = "done" /\ ~HasRef(fout.schema))

C10_Witness ==
    /\ fout.stage = "done"
    /\ fin = BrainWorkoutResultSchema
    /\ Refers(fin.defs["Skill"], "Skill")
    /\ ~HasRef(fout.schema)

\* a descriptor with no reference definitions and no references
Flat(schema) == ~schema.hasDefs /\ ~HasRef(schema.root)

AcyclicModels == {"Leaf", "MilestoneTile", "FeedbackTile", "HistoryTile"}

\* the node a field's reference stands in: the items of a list, else the field
Target(node) == IF node.items # <<>> THEN node.items[1] ELSE node

\* C21: the flattener inlines every reference with its definition; only a
\* reference met a second time on the same path (a true cycle) becomes the
\* generic object marker.  A model referenced from two sibling fields is
\* inlined with its full definition at both places.
C21_SiblingsInlined ==
    fout.stage = "done" =>
        \A i \in 1..Len(fin.root.props) :
            \A n \in AcyclicModels :
                (fin.hasDefs /\ n \in DOMAIN fin.defs /\ Refers(fin.root.props[i].schema, n))
                => /\ Target(fout.schema.props[i].schema).type = "object"
                   /\ Len(Target(fout.schema.props[i].schema).props) = Len(fin.defs[n].props)

RECURSIVE HasAnyOf(_)
\* an anyOf key somewhere in the schema
HasAnyOf(node) ==
    \/ node.anyOf # <<>>
    \/ \E i \in 1..Len(node.props) : HasAnyOf(node.props[i].schema)
    \/ \E i \in 1..Len(node.items) : HasAnyOf(node.items[i])

\* C22: for every schema given to the flattener, also one without $defs such
\* as the judge schema, each optional encoding (anyOf of the real type and
\* null) is collapsed to the real type: the result holds no anyOf at any node.
C22_NoNullableUnion ==
    fout.stage = "done" => ~HasAnyOf(fout.schema)

-----------------------------------------------------------------------------
(* SpecSave: AIPromptSender.save_to_database over the configured backend,   *)
(* the MongoDB DatabaseService or the XanoDatabaseService.                  *)

MONGODB == "mongodb"
XANO == "xano"
\* the values of DATABASE_PROVIDER that select a backend
DatabaseProviders == {MONGODB, XANO}

\* response_time_ms = None
NoTime == -1

PromptMessage(role, content) == [role |-> role, content |-> content]

SampleMessages ==
    { <<PromptMessage("user", "question")>>,
      <<PromptMessage("system", "instructions"), PromptMessage("user", "question")>> }

\* the keyword arguments save_to_database calls save_conversation with
SaveCallKeywords == {"messages", "responses", "response_times", "ratings"}
\* the parameters of DatabaseService.save_conversation
MongoSaveParams ==
    {"messages", "responses", "conversation_id", "metadata", "response_times", "ratings"}
\* the parameters of XanoDatabaseService.save_conversation
XanoSaveParams == {"messages", "responses", "conversation_id", "metadata", "response_times"}

SaveParams(provider) == IF provider = XANO THEN XanoSaveParams ELSE MongoSaveParams

\* the globals of database/connection.py, the singleton service and the
\* backend: _client and _database hold the number of the client they belong
\* to (0 for None), up tells whether the backend answers;
\* pinged and closed are the clients whose ping succeeded / that were closed
NewDb(provider, up) ==
    [provider |-> provider, up |-> up, opened |-> 0, _client |-> 0, _database |-> 0,
     pings |-> 0, pinged |-> {}, closed |-> {}, _initialized |-> FALSE, repository |-> 0,
     xano_client |-> FALSE, stored |-> <<>>, creates |-> 0]

DbResult(d, exc) == [db |-> d, exc |-> exc]

\* connection.get_database()
get_database(d) ==
    IF d.provider # MONGODB THEN DbResult(d, "RuntimeError")
    ELSE IF d._database = 0
    THEN LET c == d.opened + 1
             e == [d EXCEPT !.opened = c, !._client = c, !._database = c, !.pings = @ + 1]
         IN IF d.up THEN DbResult([e EXCEPT !.pinged = @ \cup {c}], "")
            ELSE DbResult(e, "ServerSelectionTimeoutError")
    ELSE DbResult(d, "")

\* DatabaseService.initialize()
initialize(d) ==
    IF d._initialized THEN DbResult(d, "")
    ELSE LET g == get_database(d)
         IN IF g.exc # "" THEN g
            ELSE DbResult([g.db EXCEPT !.repository = g.db._database, !._initialized = TRUE], "")

\* system_prompt of save_conversation: the content of the last system message
RECURSIVE SystemPrompt(_)
SystemPrompt(messages) ==
    IF messages = <<>> THEN None
    ELSE IF messages[Len(messages)].role = "system" THEN messages[Len(messages)].content
    ELSE SystemPrompt(SubSeq(messages, 1, Len(messages) - 1))

\* one AIResponseModel of _convert_ai_responses; response_times holds the one
\* key time_key
ConvertResponse(response, time_key, response_time) ==
    [provider |-> response.provider, response |-> response.content,
     model |-> response.model, tokens_used |-> response.tokens_used,
     error |-> response.error,
     response_time_ms |-> IF response.provider = time_key /\ response_time # 0
                          THEN response_time * 1000 ELSE NoTime]

_convert_ai_responses(responses, time_key, response_time) ==
    [i \in 1..Len(responses) |-> ConvertResponse(responses[i], time_key, response_time)]

\* the Conversation that DatabaseService.save_conversation builds
Conversation(messages, responses, time_key, response_time, ratings) ==
    [system_prompt |-> SystemPrompt(messages), messages |-> messages,
     responses |-> _convert_ai_responses(responses, time_key, response_time),
     ratings |-> ratings]

Categories == <<"clarity", "specificity", "relevance", "actionability", "approachability">>

NoRating == [provider |-> None, total_score |-> 0, categories |-> {}]

\* rating_data of save_to_database: a category counts when its tile is a dict;
\* score is total_score / len(categories)
RatingData(provider, rating) ==
    IF rating = NoEnvelope \/ rating.content = Empty THEN NoRating
    ELSE LET parsed == rating.content[1].fields
             tiles == {i \in 1..Len(Categories) : parsed[Categories[i]].t = "dict"}
             total[i \in 0..Len(Categories)] ==
                 IF i = 0 THEN 0
                 ELSE total[i - 1] + (IF i \in tiles THEN parsed[Categories[i]].n ELSE 0)
         IN [provider |-> provider, total_score |-> total[Len(Categories)],
             categories |-> {Categories[i] : i \in tiles}]

\* envelopes a caller hands to save_to_database after a dispatch to provider
SampleResponses(provider) ==
    { AIResponse(Label(provider), <<WorkoutDump(Args("dict", NoFields, TRUE))>>,
                 "custom-model", 12, NoError),
      AIResponse(Label(provider), Empty, "custom-model", NoTokens,
                 Err("APIConnectionError", {})),
      AIResponse(provider, Empty, "", NoTokens,
                 Err("Service not available for provider: ", {provider})) }

\* the rating argument: None, or the envelope of the judge
SampleRatings ==
    { NoEnvelope,
      AIResponse("Anthropic", <<JudgeDump(Args("dict", [f \in JudgeFields |-> JInt(4)], FALSE))>>,
                 "custom-model", 12, NoError),
      AIResponse("Anthropic", Empty, "custom-model", NoTokens, Err("APIConnectionError", {})) }

\* seconds a dispatch took
SampleTimes == {0, 2}

IdleSaveCall(n) ==
    [pc |-> "idle", n |-> n, enable_database |-> FALSE, provider |-> None,
     messages |-> <<>>, responses |-> <<>>, rating |-> NoEnvelope, response_time |-> 0,
     rating_data |-> NoRating, saved |-> FALSE, logged |-> "", raised |-> FALSE]

SaveInit ==
    /\ db \in {NewDb(p, up) : p \in DatabaseProviders, up \in BOOLEAN}
    /\ sv = IdleSaveCall(0)
    /\ IdleDispatch
    /\ IdleValidate
    /\ IdleFlatten
    /\ IdleShape

\* an except handler that logs and raises again
SaveCatchAllReraises(s, exc) ==
    [s EXCEPT !.pc = "done", !.logged = exc, !.raised = TRUE]

\* except Exception as e: logger.error(...) that closes save_to_database
SaveCatchAll(s, exc) ==
    [s EXCEPT !.pc = "done", !.logged = exc]

\* await sender.save_to_database(provider, messages, responses, rating,
\* response_time), up to the call of db_service.save_conversation
SaveToDatabase(enable_database, provider, messages, responses, rating, response_time) ==
    /\ sv.pc = "idle"
    /\ LET s == [sv EXCEPT !.enable_database = enable_database, !.provider = provider,
                           !.messages = messages, !.responses = responses,
                           !.rating = rating, !.response_time = response_time]
           t == [s EXCEPT !.rating_data = RatingData(provider, rating)]
       IN sv' = IF ~enable_database THEN [s EXCEPT !.pc = "done"]
                ELSE IF ~(SaveCallKeywords \subseteq SaveParams(db.provider))
                THEN SaveCatchAll(t, "TypeError")
                ELSE [t EXCEPT !.pc = "initialize"]
    /\ UNCHANGED <<db, dispatchVars, validateVars, flattenVars, shapeVars>>

\* save_conversation: await self.initialize()
StepInitialize ==
    /\ sv.pc = "initialize"
    /\ IF db.provider = XANO
       THEN /\ db' = [db EXCEPT !.xano_client = TRUE, !._initialized = TRUE]
            /\ sv' = [sv EXCEPT !.pc = "create"]
       ELSE LET r == initialize(db)
            IN /\ db' = r.db
               /\ sv' = IF r.exc # "" THEN SaveCatchAll(sv, r.exc)
                        ELSE [sv EXCEPT !.pc = "create"]
    /\ UNCHANGED <<dispatchVars, validateVars, flattenVars, shapeVars>>

\* save_conversation from the conversion of its arguments to the create
\* operation: repository.create / client.create_conversation
StepCreate ==
    /\ sv.pc = "create"
    /\ IF db.provider = XANO /\ sv.responses # <<>>
       THEN \* XanoAIResponseModel(content=...) lacks the required field response
            /\ sv' = SaveCatchAll(sv, "ValidationError")
            /\ db' = db
       ELSE IF db.up
       THEN /\ db' = [db EXCEPT !.creates = @ + 1,
                                !.stored = Append(@, Conversation(sv.messages, sv.responses,
                                                   sv.provider, sv.response_time,
                                                   sv.rating_data))]
            /\ sv' = [sv EXCEPT !.pc = "done", !.saved = TRUE]
       ELSE /\ db' = [db EXCEPT !.creates = @ + 1]
            /\ sv' = SaveCatchAll(sv, "ConnectionFailure")
    /\ UNCHANGED <<dispatchVars, validateVars, flattenVars, shapeVars>>

\* the caller goes on to its next save
SaveReset ==
    /\ sv.pc = "done"
    /\ sv.n + 1 < MaxSaves
    /\ sv' = IdleSaveCall(sv.n + 1)
    /\ UNCHANGED <<db, dispatchVars, validateVars, flattenVars, shapeVars>>

SaveNext ==
    \/ \E enable_database \in BOOLEAN, provider \in Provider, messages \in SampleMessages,
          rating \in SampleRatings, response_time \in SampleTimes :
          \E response \in SampleResponses(provider) :
             SaveToDatabase(enable_database, provider, messages, <<response>>, rating,
                            response_time)
    \/ StepInitialize
    \/ StepCreate
    \/ SaveReset

SpecSave == SaveInit /\ [][SaveNext]_vars

\* C14: when the recorder's save_conversation raises during save_to_database,
\* the exception does not reach the caller, and the envelopes the caller
\* handed over are neither changed nor dropped.
C14_SaveFailureContained ==
    /\ [](sv.pc = "done" => ~sv.raised)
    /\ [][(sv.pc # "idle" /\ sv'.pc # "idle") => sv'.responses = sv.responses]_vars

C14_Witness ==
    /\ sv.pc = "done"
    /\ sv.logged = "ConnectionFailure"
    /\ ~sv.raised
    /\ Len(sv.responses) = 1

\* C15: with either backend configured (MongoDB DatabaseService or
\* XanoDatabaseService) and answering, save_to_database invokes the backend's
\* create operation and the conversation is stored.
C15_BackendsInterchangeable ==
    (sv.pc = "done" /\ sv.enable_database /\ db.up) =>
        /\ sv.saved
        /\ db.creates >= 1
        /\ db.stored # <<>>
        /\ db.stored[Len(db.stored)].messages = sv.messages

\* C26: when the dispatch to provider P took t > 0 seconds and is saved
\* through save_to_database, the stored response of P has
\* response_time_ms = t * 1000.
C26_ElapsedTimeStored ==
    (sv.pc = "done" /\ sv.saved /\ sv.response_time > 0) =>
        LET stored == db.stored[Len(db.stored)]
        IN \A i \in 1..Len(stored.responses) :
              stored.responses[i].response_time_ms = sv.response_time * 1000

-----------------------------------------------------------------------------
(* SpecShape: get_messages of the OpenAI, Anthropic and Gemini adapters.    *)
(* A text is a sequence of chunks; the content of the i-th input message is *)
(* the one chunk MessageText[i].                                            *)

Roles == {"system", "user", "assistant"}

MessageText == <<"m1", "m2", "m3", "m4">>

\* the instructions get_messages appends to a system message
SystemSuffix == <<"\n\nCRITICAL INSTRUCTIONS: ...">>
\* the instructions get_messages puts in front of a user message
UserPrefix == <<"CRITICAL: ...\n\n">>

Prompts ==
    UNION {{[i \in 1..n |-> PromptMessage(roles[i], <<MessageText[i]>>)] :
               roles \in [1..n -> Roles]} : n \in 0..MaxMessages}

Request(system, messages) == [stage |-> "done", system |-> system, messages |-> messages]
NoRequest == [stage |-> "pending", system |-> <<>>, messages |-> <<>>]

\* the entry get_messages appends for a message that is not a system message
Turn(msg, prefixed) ==
    [role |-> msg.role,
     content |-> IF msg.role = "user" /\ prefixed THEN UserPrefix \o msg.content
                 ELSE msg.content]

RECURSIVE Turns(_, _)
\* the list built by the loop over the messages that are not system messages
Turns(messages, prefixed) ==
    IF messages = <<>> THEN <<>>
    ELSE IF messages[1].role = "system" THEN Turns(Tail(messages), prefixed)
    ELSE <<Turn(messages[1], prefixed)>> \o Turns(Tail(messages), prefixed)

RECURSIVE SystemMessages(_)
\* system_messages of AnthropicService.get_messages
SystemMessages(messages) ==
    IF messages = <<>> THEN <<>>
    ELSE IF messages[1].role = "system"
    THEN <<messages[1].content \o SystemSuffix>> \o SystemMessages(Tail(messages))
    ELSE SystemMessages(Tail(messages))

RECURSIVE Join(_)
\* "\n\n".join(texts)
Join(texts) ==
    IF texts = <<>> THEN <<>>
    ELSE IF Len(texts) = 1 THEN texts[1]
    ELSE texts[1] \o <<"\n\n">> \o Join(Tail(texts))

\* OpenAIService.get_messages: one list of role-tagged entries
OpenAIGetMessages(tool, messages) ==
    Request(<<>>,
            [i \in 1..Len(messages) |->
                IF messages[i].role = "system"
                THEN [role |-> "system", content |-> messages[i].content \o SystemSuffix]
                ELSE Turn(messages[i], tool = GENERATE_WORKOUT_RESULT)])

\* AnthropicService.get_messages: the system messages joined, the others listed
AnthropicGetMessages(tool, messages) ==
    Request(Join(SystemMessages(messages)), Turns(messages, TRUE))

\* GeminiService.get_messages: system_prompt is assigned in the loop, so the
\* last system message is the one that stays
GeminiGetMessages(tool, messages) ==
    LET system_messages == SystemMessages(messages)
    IN Request(IF system_messages = <<>> THEN <<>>
               ELSE system_messages[Len(system_messages)],
               Turns(messages, TRUE))

get_messages(provider, tool, messages) ==
    CASE provider = OPENAI -> OpenAIGetMessages(tool, messages)
      [] provider = ANTHROPIC -> AnthropicGetMessages(tool, messages)
      [] provider = GEMINI -> GeminiGetMessages(tool, messages)

ShapeInit ==
    /\ prompt \in {[provider |-> p, tool |-> t, messages |-> m] :
                     p \in DefaultModelProviders,
                     t \in {GENERATE_WORKOUT_RESULT, JUDGE_RESPONSE},
                     m \in Prompts}
    /\ request = NoRequest
    /\ IdleDispatch
    /\ IdleValidate
    /\ IdleFlatten
    /\ IdleSave

\* message_data = await self.get_messages(action, messages)
GetMessages ==
    /\ request.stage = "pending"
    /\ request' = get_messages(prompt.provider, prompt.tool, prompt.messages)
    /\ UNCHANGED <<prompt, dispatchVars, validateVars, flattenVars, saveVars>>

ShapeNext == GetMessages

SpecShape == ShapeInit /\ [][ShapeNext]_vars

\* how often the chunk stands in the outgoing request
Occurrences(chunk, r) ==
    Cardinality({k \in 1..Len(r.system) : r.system[k] = chunk})
    + Cardinality({jk \in (1..Len(r.messages)) \X (1..(MaxMessages + 3)) :
                      /\ jk[2] <= Len(r.messages[jk[1]].content)
                      /\ r.messages[jk[1]].content[jk[2]] = chunk})

NotSystem(msg) == msg.role # "system"

\* C28: request shaping loses no message: for every adapter and recognised
\* action the content of each input message stands exactly once in the
\* outgoing request, in the system portion or in the conversational portion
\* (also with more than one system message), and the messages that are not
\* system messages keep their order.
C28_NoMessageLost ==
    request.stage = "done" =>
        /\ \A i \in 1..Len(prompt.messages) :
              Occurrences(MessageText[i], request) = 1
        /\ LET given == SelectSeq(prompt.messages, NotSystem)
               sent == SelectSeq(request.messages, NotSystem)
           IN /\ Len(sent) = Len(given)
              /\ \A j \in 1..Len(given) :
                    /\ sent[j].role = given[j].role
                    /\ \E k \in 1..Len(sent[j].content) :
                          sent[j].content[k] = given[j].content[1]

-----------------------------------------------------------------------------
(* SpecConnection: the MongoDB connection globals under get_database(),     *)
(* close_database() and DatabaseService.initialize(), called by two         *)
(* coroutines.  get_database suspends at its ping (motor is asynchronous),  *)
(* so the other coroutine can run while the ping is pending.                *)

Callers == {"first", "second"}

GET_DATABASE == "get_database"
INITIALIZE == "initialize"

\* a coroutine: where it is, the call it makes, the client whose ping it waits
\* for, the handle it was given (0: none), and what was true of the handle
\* at the moment it was given: its client was closed, its ping had succeeded
IdleCaller(n) ==
    [pc |-> "idle", kind |-> "", client |-> 0, handle |-> 0, stale |-> FALSE,
     verified |-> FALSE, n |-> n]

ConnectionInit ==
    /\ db \in {NewDb(MONGODB, up) : up \in BOOLEAN}
    /\ sv = [c \in Callers |-> IdleCaller(0)]
    /\ IdleDispatch
    /\ IdleValidate
    /\ IdleFlatten
    /\ IdleShape

\* return _database
Given(caller, handle, d) ==
    [caller EXCEPT !.pc = "returned", !.handle = handle,
                   !.stale = handle \in d.closed,
                   !.verified = handle \in d.pinged]

\* initialize after get_database has returned: get_collection, the repository
Initialized(d, kind) ==
    IF kind = INITIALIZE
    THEN [d EXCEPT !.repository = d._database, !._initialized = TRUE]
    ELSE d

\* get_database() up to its ping; kind tells whether initialize() called it
EnterGetDatabase(c, kind) ==
    IF db.provider # MONGODB
    THEN /\ sv' = [sv EXCEPT ![c].pc = "raised", ![c].kind = kind]
         /\ db' = db
    ELSE IF db._database = 0
    THEN LET k == db.opened + 1
         IN /\ db' = [db EXCEPT !.opened = k, !._client = k, !._database = k,
                                !.pings = @ + 1]
            /\ sv' = [sv EXCEPT ![c].pc = "pinging", ![c].kind = kind, ![c].client = k]
    ELSE /\ db' = Initialized(db, kind)
         /\ sv' = [sv EXCEPT ![c] = Given([@ EXCEPT !.kind = kind], db._database, db)]

\* await get_database()
GetDatabase(c) ==
    /\ sv[c].pc = "idle"
    /\ EnterGetDatabase(c, GET_DATABASE)
    /\ UNCHANGED <<dispatchVars, validateVars, flattenVars, shapeVars>>

\* await service.initialize(); an initialised service goes on with the
\* repository it has
Initialize(c) ==
    /\ sv[c].pc = "idle"
    /\ IF db._initialized
       THEN /\ sv' = [sv EXCEPT ![c] = Given([@ EXCEPT !.kind = INITIALIZE],
                                             db.repository, db)]
            /\ db' = db
       ELSE EnterGetDatabase(c, INITIALIZE)
    /\ UNCHANGED <<dispatchVars, validateVars, flattenVars, shapeVars>>

\* the ping of get_database answers or fails
PingAnswers(c) ==
    /\ sv[c].pc = "pinging"
    /\ IF db.up
       THEN LET d == Initialized([db EXCEPT !.pinged = @ \cup {sv[c].client}], sv[c].kind)
            IN /\ db' = d
               /\ sv' = [sv EXCEPT ![c] = Given(@, d._database, d)]
       ELSE /\ db' = db
            /\ sv' = [sv EXCEPT ![c].pc = "raised"]
    /\ UNCHANGED <<dispatchVars, validateVars, flattenVars, shapeVars>>

\* await close_database()
CloseDatabase ==
    /\ db._client # 0
    /\ db' = [db EXCEPT !.closed = @ \cup {db._client}, !._client = 0]
    /\ UNCHANGED <<sv, dispatchVars, validateVars, flattenVars, shapeVars>>

\* the MongoDB server goes down or comes back
BackendChanges ==
    /\ db' = [db EXCEPT !.up = ~@]
    /\ UNCHANGED <<sv, dispatchVars, validateVars, flattenVars, shapeVars>>

\* the coroutine goes on to its next call
NextCall(c) ==
    /\ sv[c].pc \in {"returned", "raised"}
    /\ sv[c].n + 1 < MaxGets
    /\ sv' = [sv EXCEPT ![c] = IdleCaller(sv[c].n + 1)]
    /\ UNCHANGED <<db, dispatchVars, validateVars, flattenVars, shapeVars>>

ConnectionNext ==
    \/ \E c \in Callers : GetDatabase(c)
    \/ \E c \in Callers : Initialize(c)
    \/ \E c \in Callers : PingAnswers(c)
    \/ CloseDatabase
    \/ BackendChanges
    \/ \E c \in Callers : NextCall(c)

SpecConnection == ConnectionInit /\ [][ConnectionNext]_vars

\* C29: after any sequence of get_database() and close_database() calls, a
\* handle that get_database() returns is backed by a client that has not been
\* closed: after close_database() a new client is opened, and a
\* DatabaseService initialised before the close does not go on with the
\* closed client.
C29_HandleNotClosed ==
    \A c \in Callers : sv[c].pc = "returned" => ~sv[c].stale

\* C30: get_database() only returns a handle whose ping has succeeded: a
\* failed ping raises and leaves no cached handle, so a later call, or one
\* that started while the ping was pending, pings again.
C30_HandleVerified ==
    \A c \in Callers : sv[c].pc = "returned" => sv[c].verified

====
